---- MODULE Spec2Model ----
(***************************************************************************)
(* Model of the decoration-rectangle builder (alacritty_terminal           *)
(* renderer/rects.rs), of the display's resize handling (alacritty         *)
(* display.rs), of the event loop (alacritty event.rs) and of the fonts    *)
(* and bindings of the UIConfig (alacritty config/ui_config.rs).           *)
(*                                                                         *)
(* Numbers.  The f32/f64 pixel quantities of the source are fixed-point    *)
(* integers here, eight units to the pixel (Px(1) = 8), so halves,         *)
(* quarters and eighths of a pixel are exact and floor()/round() do what   *)
(* they do in the source.  Column, line and signal counts are plain        *)
(* integers.                                                               *)
(***************************************************************************)
EXTENDS Integers, Sequences, FiniteSets, TLC

VARIABLES
    \* ---- Rects (rects.rs:48-53) and the pass of Display::draw that feeds it
    inner,          \* Rects.inner: Seq of [rect, color]
    active_lines,   \* Rects.active_lines: <<Line(UNDERLINE), Line(STRIKEOUT)>>
    metrics,        \* Rects.metrics
    size,           \* Rects.size, also the size_info handed to update_lines
    offset,         \* the offset argument of update_lines, fixed for a pass
    fed,            \* history: the cells handed to update_lines so far
    flushed,        \* history: the (flag, start, end) of every create_rect call
    pc,             \* "feeding" while draw() iterates the cells, "drawn" after
    \* ---- Display (display.rs:106-116)
    config,         \* the Config passed to Display::new and handle_resize
    size_info,      \* Display.size_info
    font_size,      \* Display.font_size
    rx,             \* the Resize channel: signals sent and not yet received
    last,           \* history: <<>> or <<the last handle_resize call>>
    message_bar,    \* the lines the message bar of the terminal occupies
    \* ---- Processor and the closure of process_events (event.rs:264-273, 493-494)
    event_queue,            \* the events buffered since the last drain
    redraw_requested,       \* the local of process_events
    terminal_dirty,         \* terminal.dirty
    terminal_size,          \* the SizeInfo the terminal was last sized with
    processor_size_info,    \* Processor.size_info
    processor_font_size,    \* Processor.font_size
    control_flow,           \* the ControlFlow the closure last set
    drained,                \* history: <<>> or <<the last drain>>
    \* ---- the two contexts (the thread of the event loop, the one of the Display)
    terminated,             \* the contexts a panic has ended, of "display", "events"
    \* ---- the Resize channel seen one try_recv at a time (display.rs:264-283)
    handling,               \* <<>> or <<the locals of the handle_resize call in progress>>
    channel_log,            \* history: the signals sent, those each call drained (if any)
    \* ---- the lock of the terminal and the closure of process_events (event.rs:519)
    terminal_lock,          \* the FairMutex: its holder and the contexts that wait for it
    callback,               \* where the closure is: "returned", "lock" or "end"
    \* ---- UIConfig (ui_config.rs:43-77) and the calls made on it
    ui_config,              \* the UIConfig: font, small_font, the default key bindings
    returned                \* <<>> or <<the last call and what it returned>>

rectVars == <<inner, active_lines, metrics, size, offset, fed, flushed, pc>>
displayVars == <<config, size_info, font_size, rx, last, message_bar>>
eventVars == <<event_queue, redraw_requested, terminal_dirty, terminal_size,
               processor_size_info, processor_font_size, control_flow, drained>>
vars == <<inner, active_lines, metrics, size, offset, fed, flushed, pc,
          config, size_info, font_size, rx, last, message_bar,
          event_queue, redraw_requested, terminal_dirty, terminal_size,
          processor_size_info, processor_font_size, control_flow, drained,
          terminated, handling, channel_log, terminal_lock, callback,
          ui_config, returned>>
contextVars == <<terminated>>
channelVars == <<handling, channel_log>>
lockVars == <<terminal_lock, callback>>
uiVars == <<ui_config, returned>>

(***************************************************************************)
(* Bounds                                                                  *)
(***************************************************************************)
MaxCols == 3
MaxLines == 2
MaxCells == 3
MaxPending == 3
MaxQueue == 2
MaxValues == 3

(***************************************************************************)
(* Fixed-point helpers                                                     *)
(***************************************************************************)
Px(n) == 8 * n

\* A device pixel ratio, in quarters: Factor(1) is 1.0, Quarters(5) is 1.25
Quarters(q) == q

Factor(n) == Quarters(4 * n)

\* v * dpr
Scaled(v, dpr) == (v * dpr) \div 4

Max(a, b) == IF a >= b THEN a ELSE b

\* f32::floor / f64::floor
Floor(v) == (v \div 8) * 8

\* f32::round: to the nearest whole pixel, halves away from zero
Round(v) == IF v >= 0 THEN ((v + 4) \div 8) * 8 ELSE -(((-v + 4) \div 8) * 8)

\* a remainder that is never above zero
Fmod_below(a, b) == IF a % b = 0 THEN 0 ELSE (a % b) - b

\* the % of f32/f64: the remainder has the sign of the dividend
Fmod(a, b) == IF a >= 0 THEN a % b ELSE -((-a) % b)

\* SizeInfo::cols() and SizeInfo::lines(): floor((dimension - 2*padding) / cell), never negative
Cols(sz) == Max(0, (sz.width - 2 * sz.padding_x) \div sz.cell_width)

Lines(sz) == Max(0, (sz.height - 2 * sz.padding_y) \div sz.cell_height)

(***************************************************************************)
(* rects.rs                                                                *)
(***************************************************************************)
UNDERLINE == "UNDERLINE"
STRIKEOUT == "STRIKEOUT"
TrackedFlags == <<UNDERLINE, STRIKEOUT>>
Colors == {"red", "blue"}

\* impl From<&RenderableCell> for Point (cell.into())
PointOf(cell) == [line |-> cell.line, col |-> cell.column]

\* create_rect with the width taken between the two columns, the end cell left out
create_rect_exclusive(start, end, flag, m, sz, off) ==
    LET start_x == start.column * sz.cell_width
        end_x == end.col * sz.cell_width
        height == Max(IF flag = UNDERLINE THEN m.underline_thickness ELSE m.strikeout_thickness, Px(1))
        cell_bottom == (start.line + 1) * sz.cell_height
        y0 == cell_bottom + m.descent
              - (IF flag = UNDERLINE THEN m.underline_position ELSE m.strikeout_position)
              - height \div 2
        y == IF y0 > cell_bottom - height THEN cell_bottom - height ELSE y0
    IN  [rect |-> [x |-> start_x + sz.padding_x + off[1],
                   y |-> Round(y) + sz.padding_y + off[2],
                   width |-> end_x - start_x,
                   height |-> Round(height)],
         color |-> start.fg]

create_rect(start, end, flag, m, sz, off) ==
    LET start_x == start.column * sz.cell_width
        end_x == (end.col + 1) * sz.cell_width
        width == end_x - start_x
        position == IF flag = UNDERLINE THEN m.underline_position ELSE m.strikeout_position
        thickness == IF flag = UNDERLINE THEN m.underline_thickness ELSE m.strikeout_thickness
        height == Max(thickness, Px(1))
        cell_bottom == (start.line + 1) * sz.cell_height
        baseline == cell_bottom + m.descent
        y0 == baseline - position - height \div 2
        max_y == cell_bottom - height
        y == IF y0 > max_y THEN max_y ELSE y0
    IN  [rect |-> [x |-> start_x + sz.padding_x + off[1],
                   y |-> Round(y) + sz.padding_y + off[2],
                   width |-> width,
                   height |-> Round(height)],
         color |-> start.fg]

\* Continues without the comparison of the foreground colours
Continues_any_fg(range, flag, cell) ==
    /\ cell.line = range.start.line
    /\ flag \in cell.flags
    /\ cell.column = range.end.col + 1

\* Continues for the cells that carry the flag of the line and no other
Continues_one_flag_only(range, flag, cell) ==
    /\ cell.line = range.start.line
    /\ cell.flags = {flag}
    /\ cell.fg = range.start.fg
    /\ cell.column = range.end.col + 1

\* update_lines, the test "No change in line": the cell continues the open run
Continues(range, flag, cell) ==
    /\ cell.line = range.start.line
    /\ flag \in cell.flags
    /\ cell.fg = range.start.fg
    /\ cell.column = range.end.col + 1

\* StartRun that moves the end only and keeps the start of the run just flushed
StartRun_keep_start(line, cell) ==
    IF line.range = <<>>
    THEN [line EXCEPT !.range = <<[start |-> cell, end |-> PointOf(cell)]>>]
    ELSE [line EXCEPT !.range = <<[start |-> line.range[1].start, end |-> PointOf(cell)]>>]

\* update_lines: a run that starts and ends at the cell (*start = cell.clone();
\* *end = cell.into(), and line.range = Some((cell.clone(), cell.into())))
StartRun(line, cell) == [line EXCEPT !.range = <<[start |-> cell, end |-> PointOf(cell)]>>]

\* One iteration of the loop of update_lines over active_lines: the Line after
\* the cell, the rectangles pushed, and the arguments of each create_rect call.
UpdateLine(line, cell, m, sz, size_info_arg, off) ==
    IF line.range # <<>>
    THEN LET start == line.range[1].start
             end == line.range[1].end
         IN  IF Continues(line.range[1], line.flag, cell)
             THEN IF Cols(size_info_arg) = cell.column /\ Lines(size_info_arg) = cell.line
                  THEN [line |-> line,
                        push |-> <<create_rect(start, PointOf(cell), line.flag, m, sz, off)>>,
                        args |-> <<[flag |-> line.flag, start |-> start, end |-> PointOf(cell)]>>]
                  ELSE [line |-> [line EXCEPT !.range = <<[start |-> start, end |-> PointOf(cell)]>>],
                        push |-> <<>>,
                        args |-> <<>>]
             ELSE [line |-> IF line.flag \in cell.flags
                            THEN StartRun(line, cell)
                            ELSE [line EXCEPT !.range = <<>>],
                   push |-> <<create_rect(start, end, line.flag, m, sz, off)>>,
                   args |-> <<[flag |-> line.flag, start |-> start, end |-> end]>>]
    ELSE [line |-> IF line.flag \in cell.flags THEN StartRun(line, cell) ELSE line,
          push |-> <<>>,
          args |-> <<>>]

\* Rects::new
RectsNew == [i \in 1..2 |-> [flag |-> TrackedFlags[i], range |-> <<>>]]

\* The cells of the grid, and their place in the left-to-right, top-to-bottom scan
GridCells(sz) ==
    [line : 0..(Lines(sz) - 1), column : 0..(Cols(sz) - 1),
     flags : SUBSET {UNDERLINE, STRIKEOUT}, fg : Colors]

ScanIndex(sz, cell) == cell.line * Cols(sz) + cell.column

\* Rects::update_lines for the next cell of the loop of Display::draw
UpdateLines(cell) ==
    /\ pc = "feeding"
    /\ Len(fed) < MaxCells
    /\ fed # <<>> => ScanIndex(size, fed[Len(fed)]) < ScanIndex(size, cell)
    /\ LET u == UpdateLine(active_lines[1], cell, metrics, size, size, offset)
           s == UpdateLine(active_lines[2], cell, metrics, size, size, offset)
       IN  /\ active_lines' = <<u.line, s.line>>
           /\ inner' = inner \o u.push \o s.push
           /\ flushed' = flushed \o u.args \o s.args
    /\ fed' = Append(fed, cell)
    /\ UNCHANGED <<metrics, size, offset, pc>>

\* Display::draw after the loop: the rectangles go to the renderer as they are
DrawRects ==
    /\ pc = "feeding"
    /\ pc' = "drawn"
    /\ UNCHANGED <<inner, active_lines, metrics, size, offset, fed, flushed>>

\* A SizeInfo whose grid is cols x lines
GridSize(cols, lines, cw, ch, pad) ==
    [width |-> cols * cw + 2 * pad, height |-> lines * ch + 2 * pad,
     cell_width |-> cw, cell_height |-> ch, padding_x |-> pad, padding_y |-> pad, dpr |-> Factor(1)]

Metrics(up, ut, sp, st, d) ==
    [underline_position |-> up, underline_thickness |-> ut,
     strikeout_position |-> sp, strikeout_thickness |-> st, descent |-> d]

\* The metrics of the feeding passes: a thin underline below the baseline, a strikeout above it
FeedMetrics == {Metrics(-Px(1), Px(1), Px(3), Px(2), -Px(2))}

RectsInit ==
    /\ inner = <<>>
    /\ active_lines = RectsNew
    /\ metrics \in FeedMetrics
    /\ size = GridSize(MaxCols, MaxLines, Px(2), Px(8), Px(1))
    /\ offset = <<Px(1), 0>>
    /\ fed = <<>>
    /\ flushed = <<>>
    /\ pc = "feeding"

(***************************************************************************)
(* display.rs                                                              *)
(***************************************************************************)
\* enum Resize; one shape for the four kinds, h is 0 but for Size
SizeSig(w, h) == [kind |-> "Size", w |-> w, h |-> h]
DPRSig(dpr) == [kind |-> "DPR", w |-> dpr, h |-> 0]
FontSizeSig(fs) == [kind |-> "FontSize", w |-> fs, h |-> 0]
MessageBarSig(lines) == [kind |-> "MessageBar", w |-> lines, h |-> 0]

\* The values the window system, the font actions and the message bar produce
DPRs == {Factor(1), Factor(2)}
FontSizes == {1, 2}
BarLines == {0, 2}
PhysicalSizes == {[width |-> Px(10), height |-> Px(20)], [width |-> Px(13), height |-> Px(24)]}
Configs ==
    [padding : {[x |-> 0, y |-> 0], [x |-> 1, y |-> 2]},
     dynamic_padding : BOOLEAN,
     font_size : {1},
     dimensions : {<<>>, <<[columns |-> 3, lines |-> 2]>>}]

\* The configurations of the runs of handle_resize: no padding, or a padding
\* with the remainder spread; no configured dimensions, which only Display::new reads
DisplayConfigs ==
    {cfg \in Configs : cfg.dimensions = <<>> /\ (cfg.dynamic_padding <=> cfg.padding.x > 0)}

\* GlyphCache::compute_cell_size for the font at a size and dpr: whole pixels, positive
compute_cell_size(fs, dpr) ==
    [cell_width |-> Floor(Scaled(Px(fs), dpr)), cell_height |-> Floor(Scaled(Px(2 * fs), dpr))]

\* GlyphCache::calculate_dimensions: the window that holds the configured grid, if one is configured
calculate_dimensions(cfg, dpr, cell_width, cell_height) ==
    IF cfg.dimensions = <<>>
    THEN <<>>
    ELSE <<[width |-> Floor(cell_width * cfg.dimensions[1].columns + 2 * Scaled(Px(cfg.padding.x), dpr)),
            height |-> Floor(cell_height * cfg.dimensions[1].lines + 2 * Scaled(Px(cfg.padding.y), dpr))]>>

\* the whole remainder of the cells put before the grid, none after it
DynamicPadding_one_side(padding, dim, cell) == padding + Fmod(dim - 2 * padding, cell)

\* the padding of one axis with the remainder of the cells spread evenly
DynamicPadding(padding, dim, cell) == padding + Fmod(dim - 2 * padding, cell) \div 2

\* Display::new
DisplayNew(cfg, dpr, inner_size) ==
    LET cell == compute_cell_size(cfg.font_size, dpr)
        dims == calculate_dimensions(cfg, dpr, cell.cell_width, cell.cell_height)
        viewport_size == IF dims # <<>> THEN dims[1] ELSE inner_size
        px == Scaled(Px(cfg.padding.x), dpr)
        py == Scaled(Px(cfg.padding.y), dpr)
        dyn == dims = <<>> /\ cfg.dynamic_padding
        padding_x == IF dyn THEN DynamicPadding(px, viewport_size.width, cell.cell_width) ELSE px
        padding_y == IF dyn THEN DynamicPadding(py, viewport_size.height, cell.cell_height) ELSE py
    IN  [size_info |-> [dpr |-> dpr,
                        width |-> viewport_size.width,
                        height |-> viewport_size.height,
                        cell_width |-> cell.cell_width,
                        cell_height |-> cell.cell_height,
                        padding_x |-> Floor(padding_x),
                        padding_y |-> Floor(padding_y)],
         font_size |-> cfg.font_size]

\* One external call of handle_resize: the operation, the SizeInfo it is given
\* (for the glyph cache and the GL context, the Display's own) and the font size
Call(op, si, fs) == [op |-> op, size |-> si, font |-> fs]

\* update_glyph_cache that leaves the cell size of the old cache
update_glyph_cache_keep_cell(si, fs) == si

\* Display::update_glyph_cache
update_glyph_cache(si, fs) ==
    LET cell == compute_cell_size(fs, si.dpr)
    IN  [si EXCEPT !.cell_width = cell.cell_width, !.cell_height = cell.cell_height]

\* handle_resize, one turn of the loop "Take most recent resize event"
Recv_first_size(acc, resize) ==
    CASE resize.kind = "MessageBar" -> [acc EXCEPT !.message_bar_lines = <<resize.w>>]
      [] resize.kind = "FontSize" -> [acc EXCEPT !.new_font_size = resize.w]
      [] resize.kind = "Size" ->
            IF acc.new_size = <<>>
            THEN [acc EXCEPT !.new_size = <<[width |-> resize.w, height |-> resize.h]>>]
            ELSE acc
      [] resize.kind = "DPR" -> [acc EXCEPT !.new_dpr = resize.w]

Recv(acc, resize) ==
    CASE resize.kind = "MessageBar" -> [acc EXCEPT !.message_bar_lines = <<resize.w>>]
      [] resize.kind = "FontSize" -> [acc EXCEPT !.new_font_size = resize.w]
      [] resize.kind = "Size" -> [acc EXCEPT !.new_size = <<[width |-> resize.w, height |-> resize.h]>>]
      [] resize.kind = "DPR" -> [acc EXCEPT !.new_dpr = resize.w]

\* handle_resize, the loop over the pending signals
RECURSIVE Drain(_, _)
Drain(pending, acc) ==
    IF pending = <<>> THEN acc ELSE Drain(Tail(pending), Recv(acc, Head(pending)))

\* font_changed that looks at the font size alone
font_changed_size_only(new_font_size, new_dpr, fs, si) ==
    new_font_size # fs

\* font_changed with the new dpr compared to 1.0, not to the current dpr
font_changed_from_one(new_font_size, new_dpr, fs, si) ==
    new_font_size # fs \/ new_dpr # Factor(1)

\* handle_resize: "Font size/DPI factor modification detected".  The dprs of the
\* model are at least a half apart, so |a - b| > EPSILON is a # b.
font_changed(new_font_size, new_dpr, fs, si) ==
    new_font_size # fs \/ new_dpr # si.dpr

\* the current size kept as it is when the dpr changes
SynthesizedSize_unscaled(si, new_dpr) ==
    <<[width |-> si.width, height |-> si.height]>>

\* handle_resize: "Resize to event's dimensions, since no resize event is
\* emitted by the window system": the current size at the new dpr
SynthesizedSize(si, new_dpr) ==
    <<[width |-> (si.width * new_dpr) \div si.dpr,
       height |-> (si.height * new_dpr) \div si.dpr]>>

\* the pty told of every resize
pty_changed_always(message_bar_lines, previous, pty_size) == TRUE

\* handle_resize: the condition of pty_resize_handle.on_resize
pty_changed(message_bar_lines, previous, pty_size) ==
    \/ message_bar_lines # <<>>
    \/ Cols(previous) # Cols(pty_size)
    \/ Lines(previous) # Lines(pty_size)

\* the event sent first, and with the size the pty sees
resize_calls_event_first(notify, pty_size, si, fs) ==
    <<Call("send_event", pty_size, fs)>>
    \o (IF notify THEN <<Call("on_resize", pty_size, fs)>> ELSE <<>>)
    \o <<Call("context_resize", si, fs), Call("renderer_resize", si, fs)>>

\* handle_resize: the calls that end the pass once a size is resolved
resize_calls(notify, pty_size, si, fs) ==
    (IF notify THEN <<Call("on_resize", pty_size, fs)>> ELSE <<>>)
    \o <<Call("context_resize", si, fs),
         Call("renderer_resize", si, fs),
         Call("send_event", si, fs)>>

\* handle_resize after the loop, for the values the loop left
Resolve(cfg, si, fs, acc) ==
    LET changed == font_changed(acc.new_font_size, acc.new_dpr, fs, si)
        skip == /\ acc.new_size # <<>>
                /\ ~changed
                /\ acc.new_size[1].width = si.width
                /\ acc.new_size[1].height = si.height
        force == changed \/ acc.message_bar_lines # <<>>
        new_size == IF force /\ acc.new_size = <<>>
                    THEN SynthesizedSize(si, acc.new_dpr)
                    ELSE acc.new_size
        fs1 == IF force THEN acc.new_font_size ELSE fs
        si1 == IF force THEN [si EXCEPT !.dpr = acc.new_dpr] ELSE si
        si2 == IF changed THEN update_glyph_cache(si1, fs1) ELSE si1
        calls2 == IF changed THEN <<Call("update_glyph_cache", si2, fs1)>> ELSE <<>>
        px == Scaled(Px(cfg.padding.x), acc.new_dpr)
        py == Scaled(Px(cfg.padding.y), acc.new_dpr)
        padding_x == IF cfg.dynamic_padding
                     THEN DynamicPadding(px, new_size[1].width, si2.cell_width) ELSE px
        padding_y == IF cfg.dynamic_padding
                     THEN DynamicPadding(py, new_size[1].height, si2.cell_height) ELSE py
        si3 == [si2 EXCEPT !.width = new_size[1].width, !.height = new_size[1].height,
                           !.padding_x = Floor(padding_x), !.padding_y = Floor(padding_y)]
        pty_size == IF acc.message_bar_lines # <<>>
                    THEN [si3 EXCEPT !.height = @ - si3.cell_height * acc.message_bar_lines[1]]
                    ELSE si3
        notify == pty_changed(acc.message_bar_lines, si, pty_size)
    IN  IF skip
        THEN [size_info |-> si, font_size |-> fs, calls |-> <<>>]
        ELSE IF new_size = <<>>
        THEN [size_info |-> si2, font_size |-> fs1, calls |-> calls2]
        ELSE [size_info |-> si3,
              font_size |-> fs1,
              calls |-> calls2 \o resize_calls(notify, pty_size, si3, fs1)]

\* NoSignal with the dpr starting from 1.0, not from the Display's dpr
NoSignal_unit_dpr(si, fs) ==
    [new_size |-> <<>>, new_dpr |-> Factor(1), new_font_size |-> fs, message_bar_lines |-> <<>>]

\* handle_resize before the loop: no size, no message bar, the Display's dpr and font size
NoSignal(si, fs) ==
    [new_size |-> <<>>, new_dpr |-> si.dpr, new_font_size |-> fs, message_bar_lines |-> <<>>]

\* handle_resize run once for each pending signal, nothing coalesced
RECURSIVE handle_resize_each(_, _, _, _)
handle_resize_each(cfg, si, fs, pending) ==
    IF pending = <<>>
    THEN [size_info |-> si, font_size |-> fs, calls |-> <<>>]
    ELSE LET one == Resolve(cfg, si, fs, Recv(NoSignal(si, fs), Head(pending)))
             rest == handle_resize_each(cfg, one.size_info, one.font_size, Tail(pending))
         IN  [rest EXCEPT !.calls = one.calls \o rest.calls]

\* Display::handle_resize: the Display after it and the calls it made
handle_resize(cfg, si, fs, pending) ==
    Resolve(cfg, si, fs, Drain(pending, NoSignal(si, fs)))

\* The senders of the Resize channel (Display::resize_channel): a window resize,
\* a dpr change, a new font size, a message bar that grew or shrank (the signal
\* is sent when the line count is not the one before the events were handled)
SendSize(psize) ==
    /\ Len(rx) < MaxPending
    /\ rx' = Append(rx, SizeSig(psize.width, psize.height))
    /\ last' = <<>>
    /\ UNCHANGED <<config, size_info, font_size, message_bar>>

SendDPR(dpr) ==
    /\ Len(rx) < MaxPending
    /\ rx' = Append(rx, DPRSig(dpr))
    /\ last' = <<>>
    /\ UNCHANGED <<config, size_info, font_size, message_bar>>

SendFontSize(fs) ==
    /\ Len(rx) < MaxPending
    /\ rx' = Append(rx, FontSizeSig(fs))
    /\ last' = <<>>
    /\ UNCHANGED <<config, size_info, font_size, message_bar>>

SendMessageBar(lines) ==
    /\ Len(rx) < MaxPending
    /\ lines # message_bar
    /\ message_bar' = lines
    /\ rx' = Append(rx, MessageBarSig(lines))
    /\ last' = <<>>
    /\ UNCHANGED <<config, size_info, font_size>>

\* handle_resize that keeps the dpr of the call before it as its own
HandleResize_stale_dpr ==
    LET dpr == IF last = <<>> THEN size_info.dpr ELSE last[1].size_info.dpr
        r == handle_resize(config, [size_info EXCEPT !.dpr = dpr], font_size, rx)
    IN  /\ size_info' = r.size_info
        /\ font_size' = r.font_size
        /\ rx' = <<>>
        /\ last' = <<[size_info |-> size_info,
                      font_size |-> font_size,
                      drained |-> rx,
                      calls |-> r.calls,
                      follows |-> IF last = <<>> THEN <<>> ELSE <<Len(last[1].calls)>>]>>
        /\ UNCHANGED <<config, message_bar>>

\* A call of Display::handle_resize.  last records the call: the Display before
\* it, the signals it drained, the calls it made, and, when another call came
\* right before it, the operations of that call.
HandleResize ==
    LET r == handle_resize(config, size_info, font_size, rx)
    IN  /\ size_info' = r.size_info
        /\ font_size' = r.font_size
        /\ rx' = <<>>
        /\ last' = <<[size_info |-> size_info,
                      font_size |-> font_size,
                      drained |-> rx,
                      calls |-> r.calls,
                      follows |-> IF last = <<>> THEN <<>> ELSE <<Len(last[1].calls)>>]>>
        /\ UNCHANGED <<config, message_bar>>

DisplayInit ==
    /\ config \in DisplayConfigs
    /\ \E dpr \in DPRs, inner_size \in PhysicalSizes :
          LET d == DisplayNew(config, dpr, inner_size)
          IN  size_info = d.size_info /\ font_size = d.font_size
    /\ rx = <<>>
    /\ last = <<>>
    /\ message_bar = 0

\* The Display at rest, for the passes that only build rectangles
DisplayIdle ==
    /\ config = [padding |-> [x |-> 0, y |-> 0], dynamic_padding |-> FALSE,
                 font_size |-> 1, dimensions |-> <<>>]
    /\ size_info = DisplayNew(config, Factor(1), [width |-> Px(10), height |-> Px(20)]).size_info
    /\ font_size = 1
    /\ rx = <<>>
    /\ last = <<>>
    /\ message_bar = 0

\* The Rects at rest, for the runs of the Display alone
RectsIdle ==
    /\ inner = <<>>
    /\ active_lines = RectsNew
    /\ metrics = Metrics(-Px(1), Px(1), Px(3), Px(2), -Px(2))
    /\ size = GridSize(MaxCols, MaxLines, Px(2), Px(8), Px(1))
    /\ offset = <<0, 0>>
    /\ fed = <<>>
    /\ flushed = <<>>
    /\ pc = "feeding"

(***************************************************************************)
(* event.rs                                                                *)
(***************************************************************************)
\* the step of the font size actions, the unit of the font sizes of the model
FONT_SIZE_STEP == 1

NoSize ==
    [dpr |-> 0, width |-> 0, height |-> 0, cell_width |-> 0, cell_height |-> 0,
     padding_x |-> 0, padding_y |-> 0]

\* GlutinEvent<Event>; one shape for all kinds: w and h are the logical size of
\* Resized, w the dpr of HiDpiFactorChanged and the success of the reload of
\* ConfigReload, size the SizeInfo of Event::Resize, action the action the key
\* of KeyboardInput is bound to
GlutinEvent(kind, w, h, sz, action) ==
    [kind |-> kind, w |-> w, h |-> h, size |-> sz, action |-> action]

Plain(kind) == GlutinEvent(kind, 0, 0, NoSize, "")

\* The kinds Processor::skip_event names, but for Exit and EventsCleared which
\* the closure matches before it asks
SkippedKinds ==
    {"TouchpadPressure", "CursorEntered", "CursorLeft", "AxisMotion", "HoveredFileCancelled",
     "Destroyed", "HoveredFile", "Touch", "Moved",
     "DeviceEvent", "Suspended", "NewEvents", "LoopDestroyed"}

\* The SizeInfo the Display broadcasts after a resize to 13x24 at dpr 1
BroadcastSizes(cfg) == {DisplayNew(cfg, Factor(1), [width |-> Px(13), height |-> Px(24)]).size_info}

\* The events the window system and the other threads deliver, but for Exit
\* and EventsCleared.  MouseInput, Focused and RedrawRequested act on the state
\* of the model as Wakeup does (terminal.dirty); CursorIcon, Title, Urgent and
\* the input events without a font action do not act on it.  The dpr goes up
\* with HiDpiFactorChanged and comes back with the Display's broadcast.
HandledEvents(cfg) ==
    {Plain("Wakeup"), Plain("RedrawRequest"),
     GlutinEvent("ConfigReload", 1, 0, NoSize, ""),
     GlutinEvent("Resized", Px(5), Px(10), NoSize, ""),
     GlutinEvent("HiDpiFactorChanged", Factor(2), 0, NoSize, "")}
    \cup {GlutinEvent("Resize", 0, 0, sz, "") : sz \in BroadcastSizes(cfg)}
    \cup {GlutinEvent("KeyboardInput", 0, 0, NoSize, action) :
             action \in {"DecreaseFontSize", "ResetFontSize"}}

Events(cfg) == HandledEvents(cfg) \cup {Plain(kind) : kind \in SkippedKinds}

\* skip_event that also drops the redraw requests of the window system
skip_event_redraw_too(event) ==
    event.kind \in SkippedKinds \/ event.kind \in {"Exit", "EventsCleared", "RedrawRequest"}

\* Processor::skip_event
skip_event(event) ==
    event.kind \in SkippedKinds \/ event.kind \in {"Exit", "EventsCleared"}

\* a font size action that sends its new font size itself
KeyboardInput_sends(st, event, original_font_size) ==
    LET fs == CASE event.action = "DecreaseFontSize" ->
                      Max(st.font_size - FONT_SIZE_STEP, FONT_SIZE_STEP)
                [] event.action = "ResetFontSize" -> original_font_size
                [] OTHER -> st.font_size
    IN  IF event.action \in {"DecreaseFontSize", "ResetFontSize"}
        THEN [st EXCEPT !.font_size = fs, !.dirty = TRUE,
                        !.sent = Append(@, FontSizeSig(fs))]
        ELSE st

\* ActionContext::change_font_size and reset_font_size, reached from process_key
\* for the keys bound to the font actions
KeyboardInput(st, event, original_font_size) ==
    CASE event.action = "DecreaseFontSize" ->
            [st EXCEPT !.font_size = Max(st.font_size - FONT_SIZE_STEP, FONT_SIZE_STEP),
                       !.dirty = TRUE]
      [] event.action = "ResetFontSize" ->
            [st EXCEPT !.font_size = original_font_size, !.dirty = TRUE]
      [] OTHER -> st

\* Resized that applies the new size to the Processor at once
Resized_applied(st, event) ==
    [st EXCEPT !.sent = Append(@, SizeSig(Scaled(event.w, st.size_info.dpr), Scaled(event.h, st.size_info.dpr))),
               !.size_info.width = Scaled(event.w, st.size_info.dpr),
               !.size_info.height = Scaled(event.h, st.size_info.dpr),
               !.dirty = TRUE]

\* handle_event, WindowEvent::Resized: the logical size at the Processor's dpr
Resized(st, event) ==
    [st EXCEPT !.sent = Append(@, SizeSig(Scaled(event.w, st.size_info.dpr), Scaled(event.h, st.size_info.dpr))),
               !.dirty = TRUE]

\* handle_event, WindowEvent::HiDpiFactorChanged
HiDpiFactorChanged(st, event) ==
    [st EXCEPT !.sent = Append(@, DPRSig(event.w)),
               !.size_info.dpr = event.w,
               !.dirty = TRUE]

\* Event::Resize that sizes the terminal and leaves the Processor's size_info
EventResize_terminal_only(st, event) ==
    [st EXCEPT !.terminal_size = event.size,
               !.dirty = TRUE]

\* handle_event, Event::Resize
EventResize(st, event) ==
    [st EXCEPT !.terminal_size = event.size,
               !.size_info = event.size,
               !.dirty = TRUE]

\* a ConfigReload that tells the Display itself that the message bar is empty
ConfigReload_sends(st, event) ==
    [st EXCEPT !.message_bar = 0,
               !.dirty = IF event.w = 1 THEN TRUE ELSE @,
               !.sent = Append(@, MessageBarSig(0))]

\* handle_event, Event::ConfigReload: the message of the configuration file
\* leaves the message bar
ConfigReload(st, event) ==
    [st EXCEPT !.message_bar = 0,
               !.dirty = IF event.w = 1 THEN TRUE ELSE @]

\* Processor::handle_event
handle_event(st, event, original_font_size) ==
    CASE event.kind = "Wakeup" -> [st EXCEPT !.dirty = TRUE]
      [] event.kind = "RedrawRequest" -> [st EXCEPT !.redraw_requested = TRUE]
      [] event.kind = "Resize" -> EventResize(st, event)
      [] event.kind = "ConfigReload" -> ConfigReload(st, event)
      [] event.kind = "Resized" -> Resized(st, event)
      [] event.kind = "KeyboardInput" -> KeyboardInput(st, event, original_font_size)
      [] event.kind = "HiDpiFactorChanged" -> HiDpiFactorChanged(st, event)
      [] event.kind = "RedrawRequested" -> [st EXCEPT !.dirty = TRUE]
      [] OTHER -> st

\* the queue handled from its newest event to its oldest
RECURSIVE drain_newest_first(_, _, _)
drain_newest_first(queue, st, original_font_size) ==
    IF queue = <<>>
    THEN st
    ELSE LET event == queue[Len(queue)]
         IN  drain_newest_first(SubSeq(queue, 1, Len(queue) - 1),
                                [handle_event(st, event, original_font_size)
                                    EXCEPT !.handled = Append(st.handled, event)],
                                original_font_size)

\* the drain with redraw_requested a local of the callback, false at its start
RECURSIVE drain_request_not_kept(_, _, _)
drain_request_not_kept(queue, st, original_font_size) ==
    LET s0 == IF st.handled = <<>> THEN [st EXCEPT !.redraw_requested = FALSE] ELSE st
    IN  IF queue = <<>>
        THEN s0
        ELSE drain_request_not_kept(Tail(queue),
                                    [handle_event(s0, Head(queue), original_font_size)
                                        EXCEPT !.handled = Append(s0.handled, Head(queue))],
                                    original_font_size)

\* process_events: "for event in event_queue.drain(..)"; handled records the
\* events given to handle_event
RECURSIVE drain(_, _, _)
drain(queue, st, original_font_size) ==
    IF queue = <<>>
    THEN st
    ELSE drain(Tail(queue),
               [handle_event(st, Head(queue), original_font_size)
                   EXCEPT !.handled = Append(st.handled, Head(queue))],
               original_font_size)

\* a RenderUpdate for every redraw request, dirty or not
render_wanted_on_request(dirty, redraw) == redraw

\* process_events: "Send updates to render thread"
render_wanted(dirty, redraw) == dirty /\ redraw

\* the shutdown checked after the drain, the buffered events handled first
Shutdown_after_drain(event, should_exit) ==
    /\ control_flow # "Exit"
    /\ event.kind = "Exit" \/ should_exit
    /\ LET st == drain(event_queue,
                       [size_info |-> processor_size_info,
                        terminal_size |-> terminal_size,
                        dirty |-> terminal_dirty,
                        redraw_requested |-> redraw_requested,
                        font_size |-> processor_font_size,
                        message_bar |-> message_bar,
                        sent |-> <<>>,
                        handled |-> <<>>],
                       config.font_size)
       IN  /\ control_flow' = "Exit"
           /\ event_queue' = event_queue
           /\ redraw_requested' = FALSE
           /\ drained' = <<>>
           /\ terminal_dirty' = st.dirty
           /\ terminal_size' = st.terminal_size
           /\ processor_size_info' = st.size_info
           /\ processor_font_size' = st.font_size
           /\ message_bar' = st.message_bar
           /\ rx' = rx \o st.sent

\* The closure of process_events, first arm: Event::Exit, or the child has
\* exited.  The closure returns before it reaches the drain: the buffer is as
\* it was when run_return and process_events return, and ends with them.
Shutdown(event, should_exit) ==
    /\ control_flow # "Exit"
    /\ event.kind = "Exit" \/ should_exit
    /\ control_flow' = "Exit"
    /\ redraw_requested' = FALSE
    /\ drained' = <<>>
    /\ UNCHANGED <<event_queue, terminal_dirty, terminal_size,
                   processor_size_info, processor_font_size, rx, message_bar>>

\* The closure, third arm: an event of the poll phase
Buffer(event) ==
    /\ control_flow # "Exit"
    /\ event.kind \notin {"Exit", "EventsCleared"}
    /\ skip_event(event) \/ Len(event_queue) < MaxQueue
    /\ control_flow' = "Poll"
    /\ event_queue' = IF skip_event(event) THEN event_queue ELSE Append(event_queue, event)
    /\ drained' = <<>>
    /\ UNCHANGED <<redraw_requested, terminal_dirty, terminal_size,
                   processor_size_info, processor_font_size, rx, message_bar>>

\* The closure, second arm and the rest of it: EventsCleared.  completed is
\* what visual_bell.completed() answers if it is asked.  The drain waits for the Display to
\* have emptied the Resize channel, which bounds the channel.
EventsCleared(completed) ==
    /\ control_flow # "Exit"
    /\ rx = <<>>
    /\ LET st == drain(event_queue,
                       [size_info |-> processor_size_info,
                        terminal_size |-> terminal_size,
                        dirty |-> terminal_dirty,
                        redraw_requested |-> redraw_requested,
                        font_size |-> processor_font_size,
                        message_bar |-> message_bar,
                        sent |-> <<>>,
                        handled |-> <<>>],
                       config.font_size)
           font_sent == IF st.font_size # processor_font_size
                        THEN <<FontSizeSig(st.font_size)>> ELSE <<>>
           bar_sent == IF st.message_bar # message_bar
                       THEN <<MessageBarSig(st.message_bar)>> ELSE <<>>
           render == render_wanted(st.dirty, st.redraw_requested)
       IN  /\ control_flow' = "Wait"
           /\ event_queue' = <<>>
           /\ processor_size_info' = st.size_info
           /\ terminal_size' = st.terminal_size
           /\ processor_font_size' = st.font_size
           /\ message_bar' = st.message_bar
           /\ rx' = st.sent \o font_sent \o bar_sent
           /\ terminal_dirty' = IF render THEN ~completed ELSE st.dirty
           /\ redraw_requested' = IF render THEN FALSE ELSE st.redraw_requested
           /\ drained' = <<[event_queue |-> event_queue,
                            handled |-> st.handled,
                            size_info |-> processor_size_info,
                            terminal_size |-> terminal_size,
                            sent |-> rx',
                            dirty |-> st.dirty,
                            redraw_requested |-> st.redraw_requested,
                            completed |-> IF render THEN <<completed>> ELSE <<>>,
                            render_updates |-> IF render THEN 1 ELSE 0]>>

\* A message of the logger reaches the message bar of the terminal
Message(lines) ==
    /\ control_flow # "Exit"
    /\ message_bar = 0
    /\ lines > 0
    /\ message_bar' = lines
    /\ drained' = <<>>
    /\ UNCHANGED <<event_queue, redraw_requested, terminal_dirty, terminal_size,
                   processor_size_info, processor_font_size, control_flow, rx>>

\* The Display empties the Resize channel (the loop of handle_resize)
Receive ==
    /\ rx # <<>>
    /\ rx' = <<>>
    /\ drained' = <<>>
    /\ UNCHANGED <<event_queue, redraw_requested, terminal_dirty, terminal_size,
                   processor_size_info, processor_font_size, control_flow, message_bar>>

\* Processor::new and the locals of process_events, for a Display just built
ProcessorNew ==
    /\ event_queue = <<>>
    /\ redraw_requested = FALSE
    /\ terminal_dirty = FALSE
    /\ terminal_size = size_info
    /\ processor_size_info = size_info
    /\ processor_font_size = config.font_size
    /\ control_flow = "Poll"
    /\ drained = <<>>

\* The Display of the runs of the event loop: font size 2, 10x20 at dpr 1
EventsInit ==
    /\ config = [padding |-> [x |-> 0, y |-> 0], dynamic_padding |-> FALSE,
                 font_size |-> 2, dimensions |-> <<>>]
    /\ size_info = DisplayNew(config, Factor(1), [width |-> Px(10), height |-> Px(20)]).size_info
    /\ font_size = config.font_size
    /\ rx = <<>>
    /\ last = <<>>
    /\ message_bar = 0
    /\ ProcessorNew

(***************************************************************************)
(* Specifications                                                          *)
(***************************************************************************)
\* Both contexts run; no handle_resize call is in progress, nothing was sent;
\* the lock of the terminal is free and the closure is not running
(***************************************************************************)
(* ui_config.rs                                                            *)
(***************************************************************************)
\* The Font of the font section and the one of the small_font section
MainFont == [section |-> "font"]
SmallFont == [section |-> "small_font"]

\* the bound compared with < in place of <=
check_bound_strict(small_font_config, pt) ==
    IF small_font_config.upper_bound # <<>>
    THEN IF pt < small_font_config.upper_bound[1].size
         THEN <<small_font_config.font>>
         ELSE <<>>
    ELSE <<>>

\* SmallFontConfig::check_bound: Option<&Font> as <<>> or <<font>>
check_bound(small_font_config, pt) ==
    IF small_font_config.upper_bound # <<>>
    THEN IF pt <= small_font_config.upper_bound[1].size
         THEN <<small_font_config.font>>
         ELSE <<>>
    ELSE <<>>

\* UIConfig::font
font(cfg, pt) ==
    IF cfg.small_font = <<>>
    THEN cfg.font
    ELSE LET found == check_bound(cfg.small_font[1], pt)
         IN  IF found = <<>> THEN cfg.font ELSE found[1]

\* UIConfig::basic_font
basic_font(cfg) == cfg.font

\* Binding: what triggers it and what it does
Binding(trigger, action) == [valid |-> TRUE, trigger |-> trigger, action |-> action]

\* A value of the sequence that Binding::deserialize answers with an error
InvalidValue == [valid |-> FALSE, trigger |-> "", action |-> ""]

\* Binding::triggers_match
triggers_match(b, binding) == b.trigger = binding.trigger

\* bindings::default_key_bindings: two bindings share a trigger
default_key_bindings ==
    <<Binding("Paste", "Paste"), Binding("Copy", "Copy"), Binding("Paste", "PasteSelection")>>

\* deserialize_bindings, "default.retain(|b| !b.triggers_match(binding))" for
\* each of the bindings in turn
RECURSIVE retain_unmatched(_, _)
retain_unmatched(default, bindings) ==
    IF bindings = <<>>
    THEN default
    ELSE retain_unmatched(SelectSeq(default, LAMBDA b : ~triggers_match(b, bindings[1])),
                          Tail(bindings))

\* deserialize_bindings that keeps every default binding
deserialize_bindings_keep_default(input, default) ==
    IF ~input.sequence
    THEN [ok |-> FALSE, bindings |-> <<>>]
    ELSE [ok |-> TRUE,
          bindings |-> SelectSeq(input.values, LAMBDA value : value.valid) \o default]

\* deserialize_bindings: Err when the input is no sequence of values, else the
\* values that are bindings and then the default bindings left
deserialize_bindings(input, default) ==
    IF ~input.sequence
    THEN [ok |-> FALSE, bindings |-> <<>>]
    ELSE LET bindings == SelectSeq(input.values, LAMBDA value : value.valid)
         IN  [ok |-> TRUE, bindings |-> bindings \o retain_unmatched(default, bindings)]

\* Font sizes below, at and above the bound of the small font
UISizes == {1, 2, 3}

\* The configurations: no small_font section, one without upper_bound, one
\* with the bound 2
UIConfigs ==
    {[font |-> MainFont, small_font |-> sf, key_bindings |-> default_key_bindings] :
        sf \in {<<>>,
                <<[font |-> SmallFont, upper_bound |-> <<>>]>>,
                <<[font |-> SmallFont, upper_bound |-> <<[size |-> 2]>>]>>}}

\* The values a user writes under key_bindings: bindings for a default
\* trigger and for another one, and a value that is no binding
UserValues ==
    {InvalidValue, Binding("Paste", "user"), Binding("Copy", "user"), Binding("Quit", "user")}

RECURSIVE SeqsUpTo(_, _)
SeqsUpTo(S, n) ==
    IF n = 0
    THEN {<<>>}
    ELSE LET shorter == SeqsUpTo(S, n - 1)
         IN  shorter \cup {Append(q, x) : q \in shorter, x \in S}

\* What the deserializer holds: a sequence of values, or something else
BindingInputs ==
    {[sequence |-> TRUE, values |-> q] : q \in SeqsUpTo(UserValues, MaxValues)}
    \cup {[sequence |-> FALSE, values |-> <<>>]}

\* UIConfig::default
UIConfigLoaded ==
    /\ ui_config = [font |-> MainFont, small_font |-> <<>>, key_bindings |-> default_key_bindings]
    /\ returned = <<>>

\* A call of UIConfig::font
Font(pt) ==
    /\ returned' = <<[call |-> "font", size |-> pt, font |-> font(ui_config, pt)]>>
    /\ UNCHANGED ui_config

\* A call of UIConfig::basic_font
BasicFont ==
    /\ returned' = <<[call |-> "basic_font", font |-> basic_font(ui_config)]>>
    /\ UNCHANGED ui_config

\* <KeyBindings as Deserialize>::deserialize
DeserializeKeyBindings(input) ==
    /\ returned' = <<[call |-> "deserialize", input |-> input,
                      result |-> deserialize_bindings(input, default_key_bindings)]>>
    /\ UNCHANGED ui_config

Running ==
    /\ terminated = {}
    /\ handling = <<>>
    /\ channel_log = [sent |-> <<>>, drained |-> <<>>]
    /\ terminal_lock = [holder |-> "none", waiting |-> <<>>]
    /\ callback = "returned"

InitRects == RectsInit /\ DisplayIdle /\ ProcessorNew /\ Running /\ UIConfigLoaded

NextRects ==
    \/ \E cell \in GridCells(size) : UpdateLines(cell) /\ UNCHANGED <<displayVars, eventVars, contextVars, channelVars, lockVars, uiVars>>
    \/ DrawRects /\ UNCHANGED <<displayVars, eventVars, contextVars, channelVars, lockVars, uiVars>>

SpecRects == InitRects /\ [][NextRects]_vars

\* The pass over a grid of three columns and two rows, for the claims that
\* compare it with the pass over other cells
FlagsInit ==
    /\ inner = <<>>
    /\ active_lines = RectsNew
    /\ metrics \in FeedMetrics
    /\ size = GridSize(3, 2, Px(2), Px(8), Px(1))
    /\ offset = <<Px(1), 0>>
    /\ fed = <<>>
    /\ flushed = <<>>
    /\ pc = "feeding"

InitFlags == FlagsInit /\ DisplayIdle /\ ProcessorNew /\ Running /\ UIConfigLoaded

NextFlags ==
    \/ \E cell \in GridCells(size) : UpdateLines(cell) /\ UNCHANGED <<displayVars, eventVars, contextVars, channelVars, lockVars, uiVars>>
    \/ DrawRects /\ UNCHANGED <<displayVars, eventVars, contextVars, channelVars, lockVars, uiVars>>

SpecFlags == InitFlags /\ [][NextFlags]_vars

\* The UIConfig on its own: every configuration, and the calls on it
InitUIConfig ==
    /\ ui_config \in UIConfigs
    /\ returned = <<>>
    /\ RectsIdle /\ DisplayIdle /\ ProcessorNew /\ Running

NextUIConfig ==
    \/ \E fs \in UISizes : Font(fs) /\ UNCHANGED <<rectVars, displayVars, eventVars, contextVars, channelVars, lockVars>>
    \/ BasicFont /\ UNCHANGED <<rectVars, displayVars, eventVars, contextVars, channelVars, lockVars>>
    \/ \E input \in BindingInputs :
          DeserializeKeyBindings(input) /\ UNCHANGED <<rectVars, displayVars, eventVars, contextVars, channelVars, lockVars>>

SpecUIConfig == InitUIConfig /\ [][NextUIConfig]_vars

InitDisplay == DisplayInit /\ RectsIdle /\ ProcessorNew /\ Running /\ UIConfigLoaded

NextDisplay ==
    \/ \E psize \in PhysicalSizes : SendSize(psize) /\ UNCHANGED <<rectVars, eventVars, contextVars, channelVars, lockVars, uiVars>>
    \/ \E dpr \in DPRs : SendDPR(dpr) /\ UNCHANGED <<rectVars, eventVars, contextVars, channelVars, lockVars, uiVars>>
    \/ \E fs \in FontSizes : SendFontSize(fs) /\ UNCHANGED <<rectVars, eventVars, contextVars, channelVars, lockVars, uiVars>>
    \/ \E lines \in BarLines : SendMessageBar(lines) /\ UNCHANGED <<rectVars, eventVars, contextVars, channelVars, lockVars, uiVars>>
    \/ HandleResize /\ UNCHANGED <<rectVars, eventVars, contextVars, channelVars, lockVars, uiVars>>

SpecDisplay == InitDisplay /\ [][NextDisplay]_vars

\* create_rect on its own: one call, its arguments drawn from the bounded sets
Thicknesses == {0, 4, 8, 10, 12, 16, 20}
Positions == {-Px(2), -Px(1), -4, 0, 3, Px(1), Px(3)}
Descents == {-Px(2), -Px(1), -3, 0}

CreateRect(start, end, flag) ==
    /\ inner = <<>>
    /\ inner' = <<create_rect(start, end, flag, metrics, size, offset)>>
    /\ flushed' = <<[flag |-> flag, start |-> start, end |-> end]>>
    /\ UNCHANGED <<active_lines, metrics, size, offset, fed, pc>>

InitCreateRect ==
    /\ inner = <<>>
    /\ active_lines = RectsNew
    /\ metrics \in {Metrics(p, t, p, t, d) : p \in Positions, t \in Thicknesses, d \in Descents}
    /\ size = GridSize(MaxCols, MaxLines, Px(2), Px(8), Px(1))
    /\ offset \in {<<0, 0>>, <<Px(1), Px(2)>>}
    /\ fed = <<>>
    /\ flushed = <<>>
    /\ pc = "feeding"
    /\ DisplayIdle
    /\ ProcessorNew
    /\ Running /\ UIConfigLoaded

NextCreateRect ==
    \E start \in GridCells(size), col \in 0..(MaxCols - 1), flag \in {UNDERLINE, STRIKEOUT} :
        /\ start.column <= col
        /\ CreateRect(start, [line |-> start.line, col |-> col], flag)
        /\ UNCHANGED <<displayVars, eventVars, contextVars, channelVars, lockVars, uiVars>>

SpecCreateRect == InitCreateRect /\ [][NextCreateRect]_vars

\* The event loop on its own: the window system delivers events, the child may
\* exit, the logger may show a message, the Display receives the signals
InitEvents == EventsInit /\ RectsIdle /\ Running /\ UIConfigLoaded

NextEvents ==
    \/ \E event \in {Plain("Exit"), Plain("EventsCleared")}, should_exit \in BOOLEAN :
          Shutdown(event, should_exit) /\ UNCHANGED <<rectVars, config, size_info, font_size, last, contextVars, channelVars, lockVars, uiVars>>
    \/ \E event \in Events(config) :
          Buffer(event) /\ UNCHANGED <<rectVars, config, size_info, font_size, last, contextVars, channelVars, lockVars, uiVars>>
    \/ \E completed \in BOOLEAN :
          EventsCleared(completed) /\ UNCHANGED <<rectVars, config, size_info, font_size, last, contextVars, channelVars, lockVars, uiVars>>
    \/ \E lines \in BarLines :
          Message(lines) /\ UNCHANGED <<rectVars, config, size_info, font_size, last, contextVars, channelVars, lockVars, uiVars>>
    \/ Receive /\ UNCHANGED <<rectVars, config, size_info, font_size, last, contextVars, channelVars, lockVars, uiVars>>

SpecEvents == InitEvents /\ [][NextEvents]_vars

\* The two contexts together, each of which may end while the other runs: the
\* event loop returns on shutdown, either panics on a failed expect
PeerEvents ==
    {Plain("RedrawRequest"), Plain("Wakeup"),
     GlutinEvent("Resized", Px(5), Px(10), NoSize, ""),
     GlutinEvent("KeyboardInput", 0, 0, NoSize, "DecreaseFontSize")}

\* process_events owns the EventLoop: it is dropped when run_return has
\* returned or unwound, and send_event of its proxy answers Err from then on
EventLoopClosed == control_flow = "Exit" \/ "events" \in terminated

\* The sends a drain of the buffered events makes: the signals of Resized and
\* HiDpiFactorChanged, of the font size and of the message bar, the RenderUpdate
Sends ==
    LET st == drain(event_queue,
                    [size_info |-> processor_size_info,
                     terminal_size |-> terminal_size,
                     dirty |-> terminal_dirty,
                     redraw_requested |-> redraw_requested,
                     font_size |-> processor_font_size,
                     message_bar |-> message_bar,
                     sent |-> <<>>,
                     handled |-> <<>>],
                    config.font_size)
    IN  \/ st.sent # <<>>
        \/ st.font_size # processor_font_size
        \/ st.message_bar # message_bar
        \/ render_wanted(st.dirty, st.redraw_requested)

\* The EventsCleared callback with the Display running or gone: send answers
\* Err once the receiver is dropped, and expect panics on it
ProcessEvents(completed) ==
    /\ "events" \notin terminated
    /\ IF "display" \in terminated /\ Sends
       THEN /\ control_flow # "Exit"
            /\ terminated' = terminated \cup {"events"}
            /\ UNCHANGED <<eventVars, rx, message_bar>>
       ELSE EventsCleared(completed) /\ UNCHANGED terminated

\* Display::handle_resize with the event loop running or gone.  The broadcast
\* reaches the closure, which buffers it; the Err of a closed event loop is
\* dropped ("let _ =") and the Display goes on.
DisplayResize ==
    /\ "display" \notin terminated
    /\ HandleResize
    /\ LET r == handle_resize(config, size_info, font_size, rx)
           broadcast == \E i \in 1..Len(r.calls) : r.calls[i].op = "send_event"
       IN  IF broadcast /\ ~EventLoopClosed
           THEN /\ Len(event_queue) < MaxQueue
                /\ event_queue' = Append(event_queue, GlutinEvent("Resize", 0, 0, r.size_info, ""))
                /\ control_flow' = "Poll"
                /\ drained' = <<>>
                /\ UNCHANGED <<redraw_requested, terminal_dirty, terminal_size,
                               processor_size_info, processor_font_size>>
           ELSE UNCHANGED eventVars
    /\ UNCHANGED terminated

\* Display::draw, "swap_buffers().expect": the Display panics, and its
\* receivers are dropped with what they hold
SwapBuffersFails ==
    /\ "display" \notin terminated
    /\ terminated' = terminated \cup {"display"}
    /\ rx' = <<>>
    /\ last' = <<>>
    /\ UNCHANGED <<config, size_info, font_size, message_bar, eventVars>>

InitPeers == EventsInit /\ RectsIdle /\ Running /\ UIConfigLoaded

NextPeers ==
    \/ \E event \in {Plain("Exit"), Plain("EventsCleared")}, should_exit \in BOOLEAN :
          /\ "events" \notin terminated
          /\ Shutdown(event, should_exit)
          /\ UNCHANGED <<rectVars, config, size_info, font_size, last, contextVars, channelVars, lockVars, uiVars>>
    \/ \E event \in PeerEvents :
          /\ "events" \notin terminated
          /\ Buffer(event)
          /\ UNCHANGED <<rectVars, config, size_info, font_size, last, contextVars, channelVars, lockVars, uiVars>>
    \/ \E completed \in BOOLEAN :
          ProcessEvents(completed)
          /\ UNCHANGED <<rectVars, config, size_info, font_size, last, channelVars, lockVars, uiVars>>
    \/ DisplayResize /\ UNCHANGED <<rectVars, channelVars, lockVars, uiVars>>
    \/ SwapBuffersFails /\ UNCHANGED <<rectVars, channelVars, lockVars, uiVars>>

SpecPeers == InitPeers /\ [][NextPeers]_vars

\* The Resize channel with its senders running while handle_resize runs: the
\* loop of handle_resize takes one signal at each try_recv, and a send may come
\* between any two of them.  Each sender is a clone of Display.tx; the n-th
\* signal of a sender carries n, so that no two signals are equal.
Senders == {"window", "font"}

SignalOf(sender, n) ==
    IF sender = "window" THEN SizeSig(Px(10), Px(20 + n)) ELSE FontSizeSig(n)

SentBy(sender) ==
    Len(SelectSeq(channel_log.sent, LAMBDA resize : resize.kind = SignalOf(sender, 1).kind))

\* mpsc::Sender::send of a clone of Display.tx
ChannelSend(sender) ==
    /\ Len(channel_log.sent) <= MaxPending
    /\ rx' = Append(rx, SignalOf(sender, SentBy(sender) + 1))
    /\ channel_log' = [channel_log EXCEPT !.sent = Append(@, SignalOf(sender, SentBy(sender) + 1))]
    /\ UNCHANGED <<config, size_info, font_size, last, message_bar, handling>>

\* handle_resize, up to the loop: the locals
BeginResize ==
    /\ handling = <<>>
    /\ handling' = <<[acc |-> NoSignal(size_info, font_size), received |-> <<>>]>>
    /\ UNCHANGED <<config, size_info, font_size, rx, last, message_bar, channel_log>>

\* a try_recv that takes the newest signal and drops the ones before it
TryRecv_newest_only ==
    /\ handling # <<>>
    /\ rx # <<>>
    /\ handling' = <<[acc |-> Recv(handling[1].acc, rx[Len(rx)]),
                      received |-> Append(handling[1].received, rx[Len(rx)])]>>
    /\ rx' = <<>>
    /\ UNCHANGED <<config, size_info, font_size, last, message_bar, channel_log>>

\* handle_resize, one turn of the loop: try_recv answers Ok(resize)
TryRecv ==
    /\ handling # <<>>
    /\ rx # <<>>
    /\ handling' = <<[acc |-> Recv(handling[1].acc, Head(rx)),
                      received |-> Append(handling[1].received, Head(rx))]>>
    /\ rx' = Tail(rx)
    /\ UNCHANGED <<config, size_info, font_size, last, message_bar, channel_log>>

\* handle_resize, the end of the loop and the rest of the call: try_recv
\* answers Err(Empty), and the signals taken are resolved
EndResize ==
    /\ handling # <<>>
    /\ rx = <<>>
    /\ LET r == Resolve(config, size_info, font_size, handling[1].acc)
       IN  /\ size_info' = r.size_info
           /\ font_size' = r.font_size
           /\ last' = <<[size_info |-> size_info,
                         font_size |-> font_size,
                         drained |-> handling[1].received,
                         calls |-> r.calls,
                         follows |-> <<>>]>>
    /\ handling' = <<>>
    /\ channel_log' = [channel_log EXCEPT !.drained = IF handling[1].received = <<>>
                                                      THEN @
                                                      ELSE Append(@, handling[1].received)]
    /\ UNCHANGED <<config, rx, message_bar>>

InitChannel == EventsInit /\ RectsIdle /\ Running /\ UIConfigLoaded

NextChannel ==
    \/ \E sender \in Senders :
          ChannelSend(sender) /\ UNCHANGED <<rectVars, eventVars, contextVars, lockVars, uiVars>>
    \/ BeginResize /\ UNCHANGED <<rectVars, eventVars, contextVars, lockVars, uiVars>>
    \/ TryRecv /\ UNCHANGED <<rectVars, eventVars, contextVars, lockVars, uiVars>>
    \/ EndResize /\ UNCHANGED <<rectVars, eventVars, contextVars, lockVars, uiVars>>

SpecChannel == InitChannel /\ [][NextChannel]_vars

\* The lock of the terminal.  FairMutex::lock: the lock is taken if it is free
\* and nobody waits, else the context waits its turn
fair_lock(mutex, context) ==
    IF mutex.holder = "none" /\ mutex.waiting = <<>>
    THEN [holder |-> context, waiting |-> <<>>]
    ELSE [mutex EXCEPT !.waiting = Append(@, context)]

\* the drop of the guard: the lock goes to the context that waited longest
fair_unlock(mutex) ==
    IF mutex.waiting = <<>>
    THEN [holder |-> "none", waiting |-> <<>>]
    ELSE [holder |-> Head(mutex.waiting), waiting |-> Tail(mutex.waiting)]

Waits(context) == \E i \in 1..Len(terminal_lock.waiting) : terminal_lock.waiting[i] = context

\* The events of the runs with the lock: none of them sends a signal
LockEvents == {Plain("Wakeup"), Plain("RedrawRequest")}

\* The closure, second arm, up to "terminal.lock()"
CallbackLock ==
    /\ callback = "returned"
    /\ control_flow # "Exit"
    /\ "events" \notin terminated
    /\ control_flow' = "Wait"
    /\ terminal_lock' = fair_lock(terminal_lock, "events")
    /\ callback' = "lock"
    /\ drained' = <<>>
    /\ UNCHANGED <<event_queue, redraw_requested, terminal_dirty, terminal_size,
                   processor_size_info, processor_font_size, rx, message_bar, terminated>>

\* The closure from the lock on: the drain and the sends.  A panic of a send
\* unwinds the closure, which drops the guard.
CallbackDrain(completed) ==
    /\ callback = "lock"
    /\ terminal_lock.holder = "events"
    /\ ProcessEvents(completed)
    /\ IF "events" \in terminated'
       THEN callback' = "returned" /\ terminal_lock' = fair_unlock(terminal_lock)
       ELSE callback' = "end" /\ terminal_lock' = terminal_lock

\* the closure returns with the guard leaked
CallbackReturn_guard_kept ==
    /\ callback = "end"
    /\ callback' = "returned"
    /\ UNCHANGED <<terminal_lock, eventVars, rx, message_bar, terminated>>

\* The end of the closure: the guard "terminal" goes out of scope
CallbackReturn ==
    /\ callback = "end"
    /\ callback' = "returned"
    /\ terminal_lock' = fair_unlock(terminal_lock)
    /\ UNCHANGED <<eventVars, rx, message_bar, terminated>>

\* The other context (the thread that reads the pty) locks the terminal
IoLock ==
    /\ terminal_lock.holder # "io"
    /\ ~Waits("io")
    /\ terminal_lock' = fair_lock(terminal_lock, "io")
    /\ UNCHANGED <<callback, eventVars, rx, message_bar, terminated>>

IoUnlock ==
    /\ terminal_lock.holder = "io"
    /\ terminal_lock' = fair_unlock(terminal_lock)
    /\ UNCHANGED <<callback, eventVars, rx, message_bar, terminated>>

InitLock == EventsInit /\ RectsIdle /\ Running /\ UIConfigLoaded

LockDrain ==
    \E completed \in BOOLEAN :
        CallbackDrain(completed) /\ UNCHANGED <<rectVars, config, size_info, font_size, last, channelVars, uiVars>>

LockReturn == CallbackReturn /\ UNCHANGED <<rectVars, config, size_info, font_size, last, channelVars, uiVars>>

NextLock ==
    \/ \E event \in {Plain("Exit"), Plain("EventsCleared")}, should_exit \in BOOLEAN :
          /\ callback = "returned"
          /\ "events" \notin terminated
          /\ Shutdown(event, should_exit)
          /\ UNCHANGED <<rectVars, config, size_info, font_size, last,
                         contextVars, channelVars, lockVars, uiVars>>
    \/ \E event \in LockEvents :
          /\ callback = "returned"
          /\ "events" \notin terminated
          /\ Buffer(event)
          /\ UNCHANGED <<rectVars, config, size_info, font_size, last,
                         contextVars, channelVars, lockVars, uiVars>>
    \/ CallbackLock /\ UNCHANGED <<rectVars, config, size_info, font_size, last, channelVars, uiVars>>
    \/ LockDrain
    \/ LockReturn
    \/ IoLock /\ UNCHANGED <<rectVars, config, size_info, font_size, last, channelVars, uiVars>>
    \/ IoUnlock /\ UNCHANGED <<rectVars, config, size_info, font_size, last, channelVars, uiVars>>
    \/ SwapBuffersFails /\ UNCHANGED <<rectVars, channelVars, lockVars, uiVars>>

SpecLock == InitLock /\ [][NextLock]_vars

\* The thread of the event loop runs: a closure that can go on does
LiveLock == SpecLock /\ WF_vars(LockDrain) /\ WF_vars(LockReturn)

\* The event loop and the Display together: the window is resized and moved
\* between screens, the font size is changed, the Display handles the signals
\* and its broadcast comes back to the event loop
LockstepEvents ==
    {GlutinEvent("Resized", Px(5), Px(10), NoSize, ""),
     GlutinEvent("HiDpiFactorChanged", Factor(1), 0, NoSize, ""),
     GlutinEvent("HiDpiFactorChanged", Factor(2), 0, NoSize, ""),
     GlutinEvent("KeyboardInput", 0, 0, NoSize, "DecreaseFontSize"),
     GlutinEvent("KeyboardInput", 0, 0, NoSize, "ResetFontSize")}

InitLockstep == EventsInit /\ RectsIdle /\ Running /\ UIConfigLoaded

NextLockstep ==
    \/ \E event \in LockstepEvents :
          /\ Buffer(event)
          /\ last' = <<>>
          /\ UNCHANGED <<rectVars, config, size_info, font_size,
                         contextVars, channelVars, lockVars, uiVars>>
    \/ \E completed \in BOOLEAN :
          /\ EventsCleared(completed)
          /\ last' = <<>>
          /\ UNCHANGED <<rectVars, config, size_info, font_size,
                         contextVars, channelVars, lockVars, uiVars>>
    \/ DisplayResize /\ UNCHANGED <<rectVars, channelVars, lockVars, uiVars>>

SpecLockstep == InitLockstep /\ [][NextLockstep]_vars

\* The geometry on its own: every configuration, whole and fractional dprs,
\* viewports down to an empty one, one signal between two handle_resize calls
GeometryDPRs == {Factor(1), Quarters(5), Factor(2)}

GeometrySizes ==
    {[width |-> 0, height |-> Px(3)], [width |-> Px(10), height |-> Px(20)],
     [width |-> Px(13), height |-> Px(24)]}

\* The configurations, with the fonts of both sizes
GeometryConfigs ==
    [padding : {[x |-> 0, y |-> 0], [x |-> 1, y |-> 2]},
     dynamic_padding : BOOLEAN,
     font_size : FontSizes,
     dimensions : {<<>>, <<[columns |-> 3, lines |-> 2]>>}]

GeometryInit ==
    /\ config \in GeometryConfigs
    /\ \E dpr \in GeometryDPRs, inner_size \in GeometrySizes :
          LET d == DisplayNew(config, dpr, inner_size)
          IN  size_info = d.size_info /\ font_size = d.font_size
    /\ rx = <<>>
    /\ last = <<>>
    /\ message_bar = 0

InitGeometry == GeometryInit /\ RectsIdle /\ ProcessorNew /\ Running /\ UIConfigLoaded

NextGeometry ==
    \/ \E psize \in GeometrySizes :
          /\ rx = <<>>
          /\ SendSize(psize)
          /\ UNCHANGED <<rectVars, eventVars, contextVars, channelVars, lockVars, uiVars>>
    \/ \E dpr \in GeometryDPRs :
          /\ rx = <<>>
          /\ SendDPR(dpr)
          /\ UNCHANGED <<rectVars, eventVars, contextVars, channelVars, lockVars, uiVars>>
    \/ \E fs \in FontSizes :
          /\ rx = <<>>
          /\ SendFontSize(fs)
          /\ UNCHANGED <<rectVars, eventVars, contextVars, channelVars, lockVars, uiVars>>
    \/ HandleResize /\ UNCHANGED <<rectVars, eventVars, contextVars, channelVars, lockVars, uiVars>>

SpecGeometry == InitGeometry /\ [][NextGeometry]_vars

(***************************************************************************)
(* Claims about rects.rs                                                   *)
(***************************************************************************)
\* A cell with the flag and the colour was fed at (line, col)
FedWith(flag, line, col, fg) ==
    \E k \in 1..Len(fed) :
        /\ fed[k].line = line
        /\ fed[k].column = col
        /\ flag \in fed[k].flags
        /\ fed[k].fg = fg

\* The maximal runs of a flag in the cells fed
MaximalRuns(flag) ==
    {r \in [line : 0..(MaxLines - 1), s : 0..(MaxCols - 1), e : 0..(MaxCols - 1), fg : Colors] :
        /\ r.s <= r.e
        /\ \A c \in r.s..r.e : FedWith(flag, r.line, c, r.fg)
        /\ ~FedWith(flag, r.line, r.s - 1, r.fg)
        /\ ~FedWith(flag, r.line, r.e + 1, r.fg)}

FlushedOf(flag) == {i \in 1..Len(flushed) : flushed[i].flag = flag}

RunOf(i) ==
    [line |-> flushed[i].start.line, s |-> flushed[i].start.column,
     e |-> flushed[i].end.col, fg |-> flushed[i].start.fg]

Cell(line, column, flags, fg) == [line |-> line, column |-> column, flags |-> flags, fg |-> fg]

\* C1: once the pass is over, the rectangles of each tracked flag are, one to
\* one, the maximal runs of that flag in the cells fed.
C1_RectsAreTheMaximalRuns ==
    pc = "drawn" =>
        /\ Len(inner) = Len(flushed)
        /\ \A flag \in {UNDERLINE, STRIKEOUT} :
            /\ {RunOf(i) : i \in FlushedOf(flag)} = MaximalRuns(flag)
            /\ Cardinality(FlushedOf(flag)) = Cardinality(MaximalRuns(flag))

\* C2: no two rectangles of one flag on one row share a column.
C2_NoOverlap ==
    \A i, j \in 1..Len(flushed) :
        (/\ i # j
         /\ flushed[i].flag = flushed[j].flag
         /\ flushed[i].start.line = flushed[j].start.line)
        => \/ flushed[i].end.col < flushed[j].start.column
           \/ flushed[j].end.col < flushed[i].start.column

C2_Witness ==
    \E i, j \in 1..Len(flushed) :
        /\ i < j
        /\ flushed[i].flag = flushed[j].flag
        /\ flushed[i].start.line = flushed[j].start.line

\* C3: a run whose last cell is the last column of the last row is flushed by
\* the update_lines call for that cell.
C3_LastCellFlushes ==
    \A flag \in {UNDERLINE, STRIKEOUT} :
        (/\ fed # <<>>
         /\ fed[Len(fed)].line = Lines(size) - 1
         /\ fed[Len(fed)].column = Cols(size) - 1
         /\ flag \in fed[Len(fed)].flags)
        => \E i \in FlushedOf(flag) :
                /\ flushed[i].end = PointOf(fed[Len(fed)])
                /\ RunOf(i) \in MaximalRuns(flag)

C4_Scenario == <<Cell(0, 0, {UNDERLINE}, "red"), Cell(0, 1, {UNDERLINE}, "blue"), Cell(0, 2, {}, "red")>>

\* C4: every rectangle covers cells of the row and of the foreground colour of
\* its start cell and has that colour; after a flagged cell the open run ends at
\* it and has its row and colour, so a change of row or colour started a new
\* run; underlined red, blue, then a plain cell give a red and a blue rectangle
\* of one column each.
C4_RunsKeepRowAndColour ==
    /\ \A i \in 1..Len(flushed) :
        /\ flushed[i].end.line = flushed[i].start.line
        /\ flushed[i].start.column <= flushed[i].end.col
        /\ \A c \in flushed[i].start.column..flushed[i].end.col :
              FedWith(flushed[i].flag, flushed[i].start.line, c, flushed[i].start.fg)
        /\ i <= Len(inner) /\ inner[i].color = flushed[i].start.fg
    /\ \A k \in 1..2 :
        (fed # <<>> /\ active_lines[k].flag \in fed[Len(fed)].flags)
        => /\ active_lines[k].range # <<>>
           /\ active_lines[k].range[1].end = PointOf(fed[Len(fed)])
           /\ active_lines[k].range[1].start.line = fed[Len(fed)].line
           /\ active_lines[k].range[1].start.fg = fed[Len(fed)].fg
    /\ fed = C4_Scenario =>
        /\ Len(inner) = 2
        /\ RunOf(1) = [line |-> 0, s |-> 0, e |-> 0, fg |-> "red"] /\ inner[1].color = "red"
        /\ RunOf(2) = [line |-> 0, s |-> 1, e |-> 1, fg |-> "blue"] /\ inner[2].color = "blue"
        /\ inner[1].rect.width = size.cell_width /\ inner[2].rect.width = size.cell_width

C4_Witness == fed = C4_Scenario /\ Len(inner) = 2

C5_Scenario == <<Cell(0, 0, {UNDERLINE}, "red"), Cell(0, 1, {UNDERLINE}, "red"), Cell(0, 2, {}, "red")>>

\* C5: a flushed run from column s to column e has x = s * cell_width +
\* padding_x + offset_x and width = (e + 1 - s) * cell_width; two underlined red
\* cells at columns 0 and 1 and a plain cell at column 2 give one rectangle over
\* columns 0 to 1.
C5_Geometry ==
    /\ Len(inner) = Len(flushed)
    /\ \A i \in 1..Len(flushed) :
        /\ inner[i].rect.x = flushed[i].start.column * size.cell_width + size.padding_x + offset[1]
        /\ inner[i].rect.width = (flushed[i].end.col + 1 - flushed[i].start.column) * size.cell_width
    /\ fed = C5_Scenario =>
        /\ Len(inner) = 1
        /\ RunOf(1) = [line |-> 0, s |-> 0, e |-> 1, fg |-> "red"]
        /\ inner[1].color = "red"
        /\ inner[1].rect.width = 2 * size.cell_width

C5_Witness == fed = C5_Scenario /\ Len(inner) = 1

\* C6: every rectangle is at least one pixel high and ends at or above the
\* bottom edge of the row of its start cell, in the values stored after rounding.
C6_InsideTheCell ==
    \A i \in 1..Len(flushed) :
        /\ i <= Len(inner)
        /\ inner[i].rect.height >= Px(1)
        /\ (inner[i].rect.y - size.padding_y - offset[2]) + inner[i].rect.height
              <= (flushed[i].start.line + 1) * size.cell_height

(***************************************************************************)
(* Claims about Display::handle_resize                                     *)
(***************************************************************************)
Kinds == <<"Size", "DPR", "FontSize", "MessageBar">>

\* The last signal of a kind in q, if there is one
LastOf(q, kind) ==
    LET at == {i \in 1..Len(q) : q[i].kind = kind}
    IN  IF at = {} THEN <<>> ELSE <<q[CHOOSE i \in at : \A j \in at : j <= i]>>

\* The last signal of each kind in q, in the order of Kinds
Canonical(q) == LastOf(q, Kinds[1]) \o LastOf(q, Kinds[2]) \o LastOf(q, Kinds[3]) \o LastOf(q, Kinds[4])

CountOf(calls, op) == Cardinality({i \in 1..Len(calls) : calls[i].op = op})

Operations == {"update_glyph_cache", "on_resize", "context_resize", "renderer_resize", "send_event"}

\* C7: handle_resize drains every pending signal, and what it does is what it
\* does for the last signal of each kind alone: two pending sequences with the
\* same last values give the same Display and the same calls.
C7_OnlyTheLastOfEachKind ==
    last # <<>> =>
        /\ rx = <<>>
        /\ LET r == handle_resize(config, last[1].size_info, last[1].font_size,
                                  Canonical(last[1].drained))
           IN  /\ r.size_info = size_info
               /\ r.font_size = font_size
               /\ r.calls = last[1].calls

C7_Witness ==
    /\ last # <<>>
    /\ last[1].calls # <<>>
    /\ \E i, j \in 1..Len(last[1].drained) :
          /\ i < j
          /\ last[1].drained[i].kind = last[1].drained[j].kind
          /\ last[1].drained[i] # last[1].drained[j]
          /\ \A k \in (j + 1)..Len(last[1].drained) : last[1].drained[k].kind # last[1].drained[j].kind
          /\ size_info # handle_resize(config, last[1].size_info, last[1].font_size,
                                       <<last[1].drained[i]>>).size_info

C8_Scenario ==
    /\ last # <<>>
    /\ Len(last[1].drained) = 3
    /\ last[1].drained[1].kind = "Size"
    /\ last[1].drained[2].kind = "DPR"
    /\ last[1].drained[3].kind = "Size"
    /\ last[1].drained[2].w # last[1].size_info.dpr

\* C8: one call rebuilds the glyph cache, notifies the pty, resizes the context
\* and the renderer (the one recomputation of the geometry) and sends
\* Event::Resize at most once each; with Size(a), DPR(d), Size(b) pending and d
\* not the current dpr, the size applied is b at dpr d.
C8_AtMostOnce ==
    /\ last # <<>> => \A op \in Operations : CountOf(last[1].calls, op) <= 1
    /\ C8_Scenario =>
        /\ size_info.width = last[1].drained[3].w
        /\ size_info.height = last[1].drained[3].h
        /\ size_info.dpr = last[1].drained[2].w
        /\ CountOf(last[1].calls, "update_glyph_cache") = 1
        /\ CountOf(last[1].calls, "renderer_resize") = 1

C8_Witness == C8_Scenario /\ last[1].drained[1] # last[1].drained[3]

C9_Unchanged ==
    /\ last # <<>>
    /\ \A i \in 1..Len(last[1].drained) : last[1].drained[i].kind \notin {"Size", "MessageBar"}
    /\ LastOf(last[1].drained, "FontSize") \in {<<>>, <<FontSizeSig(last[1].font_size)>>}
    /\ LastOf(last[1].drained, "DPR") \in {<<>>, <<DPRSig(last[1].size_info.dpr)>>}

\* C9: a call that drains no Size and no MessageBar signal, and whose last
\* FontSize and DPR values (or the current ones) are the Display's, changes
\* nothing and calls nothing.
C9_NoOp ==
    C9_Unchanged =>
        /\ size_info = last[1].size_info
        /\ font_size = last[1].font_size
        /\ last[1].calls = <<>>

C9_Witness ==
    /\ C9_Unchanged
    /\ LastOf(last[1].drained, "FontSize") # <<>>
    /\ LastOf(last[1].drained, "DPR") # <<>>
    /\ last[1].size_info.dpr = Factor(2)

\* C10: a call that comes right after another call, with no signal sent in
\* between, leaves size_info and font_size as the first call left them and makes
\* no call.
C10_SecondCallIsNoOp ==
    (last # <<>> /\ last[1].follows # <<>>) =>
        /\ last[1].drained = <<>>
        /\ size_info = last[1].size_info
        /\ font_size = last[1].font_size
        /\ last[1].calls = <<>>

C10_Witness ==
    /\ last # <<>>
    /\ last[1].follows # <<>>
    /\ last[1].follows[1] >= 4
    /\ size_info.dpr = Factor(2)
    /\ font_size = 2

\* What the last call was left with after its loop, read off the signals it drained
Drained(kind) == LastOf(last[1].drained, kind)

CoalescedDpr == IF Drained("DPR") = <<>> THEN last[1].size_info.dpr ELSE Drained("DPR")[1].w

CoalescedFontSize == IF Drained("FontSize") = <<>> THEN last[1].font_size ELSE Drained("FontSize")[1].w

FontChanged == CoalescedFontSize # last[1].font_size \/ CoalescedDpr # last[1].size_info.dpr

CallsOf(op) == {i \in 1..Len(last[1].calls) : last[1].calls[i].op = op}

Called(op) == CallsOf(op) # {}

TheCall(op) == last[1].calls[CHOOSE i \in CallsOf(op) : TRUE]

\* The padding of one axis for the configured padding p at the coalesced dpr
ExpectedPadding(p, dim, cell) ==
    Floor(IF config.dynamic_padding
          THEN DynamicPadding(Scaled(Px(p), CoalescedDpr), dim, cell)
          ELSE Scaled(Px(p), CoalescedDpr))

C11_ChangeWithoutSize ==
    /\ last # <<>>
    /\ Drained("Size") = <<>>
    /\ FontChanged \/ Drained("MessageBar") # <<>>

\* C11: a call that drains a font size or dpr change, or a MessageBar signal,
\* and no Size signal applies the current size rescaled by new dpr / old dpr,
\* recomputes the padding for it, resizes the renderer and sends Event::Resize.
C11_SynthesizedSize ==
    C11_ChangeWithoutSize =>
        /\ size_info.width * last[1].size_info.dpr = last[1].size_info.width * CoalescedDpr
        /\ size_info.height * last[1].size_info.dpr = last[1].size_info.height * CoalescedDpr
        /\ size_info.padding_x
              = ExpectedPadding(config.padding.x, size_info.width, size_info.cell_width)
        /\ size_info.padding_y
              = ExpectedPadding(config.padding.y, size_info.height, size_info.cell_height)
        /\ Called("context_resize")
        /\ Called("renderer_resize") /\ TheCall("renderer_resize").size = size_info
        /\ Called("send_event") /\ TheCall("send_event").size = size_info

C11_Witness ==
    /\ C11_ChangeWithoutSize
    /\ CoalescedDpr # last[1].size_info.dpr
    /\ size_info.width # last[1].size_info.width
    /\ Called("send_event")

\* C12: a call rebuilds the glyph cache if and only if the coalesced font size
\* is not the current one or the coalesced dpr is not the current one; Size and
\* MessageBar signals alone never rebuild it.
C12_RebuiltIffFontChanged ==
    last # <<>> => (Called("update_glyph_cache") <=> FontChanged)

C12_Witness ==
    /\ last # <<>>
    /\ Called("update_glyph_cache")
    /\ CoalescedFontSize = last[1].font_size
    /\ Drained("Size") # <<>>
    /\ Drained("MessageBar") # <<>>

\* C13: a rebuild of the glyph cache is the first thing a call does, it is made
\* for the coalesced font size and dpr, and the cell size and the padding the
\* call leaves are those of the rebuilt cache.
C13_RebuildBeforeGeometry ==
    (last # <<>> /\ Called("update_glyph_cache")) =>
        LET c == last[1].calls[1]
            cell == compute_cell_size(CoalescedFontSize, CoalescedDpr)
        IN  /\ c.op = "update_glyph_cache"
            /\ c.font = CoalescedFontSize
            /\ c.size.dpr = CoalescedDpr
            /\ c.size.cell_width = cell.cell_width
            /\ c.size.cell_height = cell.cell_height
            /\ size_info.cell_width = cell.cell_width
            /\ size_info.cell_height = cell.cell_height
            /\ size_info.padding_x
                  = ExpectedPadding(config.padding.x, size_info.width, cell.cell_width)
            /\ size_info.padding_y
                  = ExpectedPadding(config.padding.y, size_info.height, cell.cell_height)
            /\ \A i \in CallsOf("on_resize") :
                  /\ i > 1
                  /\ last[1].calls[i].size.cell_width = cell.cell_width
                  /\ last[1].calls[i].size.padding_x = size_info.padding_x

C13_Witness ==
    /\ last # <<>>
    /\ Called("update_glyph_cache")
    /\ Called("on_resize")
    /\ config.dynamic_padding
    /\ size_info.cell_width # last[1].size_info.cell_width
    /\ size_info.padding_x # last[1].size_info.padding_x

\* C14: every on_resize call passes the window height less the lines the
\* message bar occupies at the time, also in the calls after the one that
\* drained the MessageBar signal.
C14_BarNeverPassedToPty ==
    last # <<>> =>
        \A i \in CallsOf("on_resize") :
            last[1].calls[i].size.height = size_info.height - message_bar * size_info.cell_height

\* C15: the pty is notified only by a call that drained a MessageBar signal or
\* whose pty-visible size has not the columns or not the lines the Display had
\* before the call.
C15_NotifiedOnlyOnChange ==
    last # <<>> =>
        \A i \in CallsOf("on_resize") :
            \/ Drained("MessageBar") # <<>>
            \/ Cols(last[1].calls[i].size) # Cols(last[1].size_info)
            \/ Lines(last[1].calls[i].size) # Lines(last[1].size_info)

C15_Witness ==
    /\ last # <<>>
    /\ Called("renderer_resize")
    /\ ~Called("on_resize")
    /\ size_info.width # last[1].size_info.width
    /\ Cols(size_info) = Cols(last[1].size_info)
    /\ Lines(size_info) = Lines(last[1].size_info)

\* A size was resolved: a Size signal that was not skipped, or a synthesized size
C16_Resolved ==
    IF Drained("Size") # <<>>
    THEN \/ FontChanged
         \/ Drained("Size")[1].w # last[1].size_info.width
         \/ Drained("Size")[1].h # last[1].size_info.height
    ELSE FontChanged \/ Drained("MessageBar") # <<>>

\* C16: the context resize, the renderer resize and Event::Resize are made only
\* by a call that resolved a size; they are made together, in that order, after
\* the pty notification if there is one, and the event carries the size_info the
\* call leaves.
C16_AppliedTogether ==
    last # <<>> =>
        LET calls == last[1].calls
            n == Len(calls)
        IN  /\ Called("context_resize") => C16_Resolved
            /\ Called("context_resize") <=> Called("renderer_resize")
            /\ Called("renderer_resize") <=> Called("send_event")
            /\ Called("send_event") =>
                  /\ calls[n].op = "send_event"
                  /\ calls[n - 1].op = "renderer_resize"
                  /\ calls[n - 2].op = "context_resize"
                  /\ \A i \in CallsOf("on_resize") : i < n - 2
                  /\ calls[n].size = size_info
                  /\ calls[n - 1].size = size_info
                  /\ Drained("Size") # <<>> =>
                        /\ size_info.width = Drained("Size")[1].w
                        /\ size_info.height = Drained("Size")[1].h

C16_Witness ==
    /\ last # <<>>
    /\ Drained("Size") # <<>>
    /\ Drained("MessageBar") # <<>>
    /\ Drained("MessageBar")[1].w > 0
    /\ Called("on_resize")
    /\ Called("send_event")
    /\ size_info # last[1].size_info

\* C17: a call that drained a MessageBar(n) signal notifies the pty, once, with
\* the height the call leaves less n cell heights and with the width it leaves,
\* whatever else it drained.
C17_BarAlwaysNotified ==
    (last # <<>> /\ Drained("MessageBar") # <<>>) =>
        /\ CountOf(last[1].calls, "on_resize") = 1
        /\ TheCall("on_resize").size.height
              = size_info.height - Drained("MessageBar")[1].w * size_info.cell_height
        /\ TheCall("on_resize").size.width = size_info.width

(***************************************************************************)
(* Claims about Processor::process_events                                  *)
(***************************************************************************)
\* The kinds the poll phase drops: device events, cursor entered and left,
\* touch, touchpad pressure, axis motion, hovered file (and its cancellation),
\* window moved and destroyed, the suspended, new-events and loop-destroyed markers
C18_SkippedKinds ==
    {"DeviceEvent", "CursorEntered", "CursorLeft", "Touch", "TouchpadPressure", "AxisMotion",
     "HoveredFile", "HoveredFileCancelled", "Moved", "Destroyed",
     "Suspended", "NewEvents", "LoopDestroyed"}

C18_NoneSkippedIsBuffered ==
    \A i \in 1..Len(event_queue) : event_queue[i].kind \notin C18_SkippedKinds

\* The buffer arm of the closure drops the events of the kinds named, and no other
C18_OnlyTheNamedAreDropped ==
    \A event \in Events(config) : skip_event(event) <=> event.kind \in C18_SkippedKinds

C18_Drained ==
    drained # <<>> =>
        /\ drained[1].handled = drained[1].event_queue
        /\ event_queue = <<>>

\* C18: an event of a skipped kind is never in the buffer; the poll phase
\* drops no event of another kind; a drain gives handle_event the buffered
\* events, each once, in the order they came, and leaves the buffer empty.
C18_BufferedThenHandledInOrder ==
    /\ C18_NoneSkippedIsBuffered
    /\ C18_OnlyTheNamedAreDropped
    /\ C18_Drained

C18_Witness ==
    /\ drained # <<>>
    /\ Len(drained[1].handled) = MaxQueue
    /\ drained[1].handled[1] # drained[1].handled[2]
    /\ drained[1].handled[1].kind = "HiDpiFactorChanged"
    /\ event_queue = <<>>

\* C19: a drain sends no RenderUpdate or one; it sends one exactly when
\* terminal.dirty and redraw_requested both hold after the events were handled;
\* after sending, redraw_requested is false and terminal.dirty is true exactly
\* when the visual bell has not completed.
C19_OneRenderUpdateWhenBothSet ==
    drained # <<>> =>
        /\ drained[1].render_updates \in {0, 1}
        /\ drained[1].render_updates = 1 <=> (drained[1].dirty /\ drained[1].redraw_requested)
        /\ drained[1].render_updates = 1 =>
              /\ redraw_requested = FALSE
              /\ terminal_dirty = ~drained[1].completed[1]

C19_Witness ==
    /\ drained # <<>>
    /\ drained[1].render_updates = 1
    /\ drained[1].completed = <<FALSE>>
    /\ terminal_dirty
    /\ ~redraw_requested

IsResizeClass(event) == event.kind \in {"Resized", "HiDpiFactorChanged"}

IsResizeSignal(resize) == resize.kind \in {"Size", "DPR"}

C20_NoResizeHandled ==
    /\ drained # <<>>
    /\ \A i \in 1..Len(drained[1].handled) : drained[1].handled[i].kind # "Resize"

\* The dpr of the Processor when the k-th event of the drain is handled
C20_DprAt(k) ==
    LET at == {j \in 1..(k - 1) : drained[1].handled[j].kind = "HiDpiFactorChanged"}
    IN  IF at = {}
        THEN drained[1].size_info.dpr
        ELSE drained[1].handled[CHOOSE j \in at : \A i \in at : i <= j].w

\* The signal the k-th resize-class event of the drain is turned into
C20_SignalOf(events, k) ==
    IF events[k].kind = "HiDpiFactorChanged"
    THEN DPRSig(events[k].w)
    ELSE LET at == CHOOSE j \in 1..Len(drained[1].handled) :
                      /\ drained[1].handled[j].kind = "Resized"
                      /\ Len(SelectSeq(SubSeq(drained[1].handled, 1, j), IsResizeClass)) = k
         IN  SizeSig(Scaled(events[k].w, C20_DprAt(at)), Scaled(events[k].h, C20_DprAt(at)))

\* C20 as stated: a drain that handles no Event::Resize leaves the Processor's
\* size_info and the terminal's dimensions as they were.
C20_NothingApplied ==
    C20_NoResizeHandled =>
        /\ processor_size_info = drained[1].size_info
        /\ terminal_size = drained[1].terminal_size

\* C20, amended: a drain that handles no Event::Resize leaves the terminal's
\* dimensions and, but for dpr, the Processor's size_info as they were; every
\* Resized and HiDpiFactorChanged it handles is turned into one Size or DPR
\* signal, in order, and marks the terminal dirty; HiDpiFactorChanged also
\* stores its dpr in the Processor's size_info.dpr at once.
C20_OnlyDprApplied ==
    C20_NoResizeHandled =>
        LET events == SelectSeq(drained[1].handled, IsResizeClass)
            signals == SelectSeq(drained[1].sent, IsResizeSignal)
        IN  /\ terminal_size = drained[1].terminal_size
            /\ processor_size_info
                  = [drained[1].size_info EXCEPT !.dpr = C20_DprAt(Len(drained[1].handled) + 1)]
            /\ Len(signals) = Len(events)
            /\ \A k \in 1..Len(events) : signals[k] = C20_SignalOf(events, k)
            /\ events # <<>> => drained[1].dirty

C20_Witness ==
    /\ C20_NoResizeHandled
    /\ Len(drained[1].handled) = 2
    /\ drained[1].handled[1].kind = "HiDpiFactorChanged"
    /\ drained[1].handled[2].kind = "Resized"
    /\ drained[1].size_info.dpr = Factor(1)
    /\ processor_size_info.dpr = Factor(2)
    /\ processor_size_info.width = drained[1].size_info.width

\* What a callback that handles a buffered event, sends a signal or sends a
\* RenderUpdate changes
C21_Untouched ==
    <<event_queue, rx, terminal_dirty, terminal_size, processor_size_info,
      processor_font_size, message_bar>>

\* C21: the callback that sets the control flow to Exit handles no buffered
\* event (the buffer and what the handlers write are as they were), sends no
\* Resize signal and leaves no record of a drain or of a RenderUpdate,
\* whatever is in the buffer.
C21_ShutdownBeforeBufferedEvents ==
    [][(control_flow # "Exit" /\ control_flow' = "Exit") =>
          /\ UNCHANGED C21_Untouched
          /\ drained' = <<>>]_vars

\* The loop has exited with a full buffer of events that write the state
C21_Witness ==
    /\ control_flow = "Exit"
    /\ Len(event_queue) = MaxQueue
    /\ event_queue[1].kind = "HiDpiFactorChanged"
    /\ event_queue[2].kind = "RedrawRequest"
    /\ processor_size_info.dpr = Factor(1)
    /\ rx = <<>>

(***************************************************************************)
(* Claims about the two contexts                                           *)
(***************************************************************************)
\* This step is a handle_resize call that broadcasts Event::Resize
C22_Broadcasts ==
    /\ last' # <<>>
    /\ last' # last
    /\ \E i \in 1..Len(last'[1].calls) : last'[1].calls[i].op = "send_event"

\* C22: a send to a peer that is gone ends the sender.  The event loop, once
\* the Display is gone, completes no drain that sent a signal or a
\* RenderUpdate, and puts nothing in the channel; the Display, once the event
\* loop is closed, is ended by the handle_resize call that broadcasts.
C22_FailedSendsAreFatal ==
    [][/\ ("display" \in terminated /\ drained' # <<>> /\ drained' # drained) =>
             /\ drained'[1].sent = <<>>
             /\ drained'[1].render_updates = 0
       /\ "display" \in terminated => rx' = <<>>
       /\ (EventLoopClosed /\ C22_Broadcasts) => "display" \in terminated']_vars

(***************************************************************************)
(* Claims about the geometry                                               *)
(***************************************************************************)
\* The configured padding of an axis scaled by a dpr
C23_Scaled(padding, dpr) == Scaled(Px(padding), dpr)

\* The padding of an axis as the two modes give it; mod is the remainder of
\* the division that truncates, as % of f32
C23_Padding(dynamic, p, dim, cell) ==
    IF dynamic THEN Floor(p + Fmod(dim - 2 * p, cell) \div 2) ELSE Floor(p)

\* C23: after a handle_resize call that resolves a size, with p the configured
\* padding times the new dpr, the padding of each axis is floor(p) under fixed
\* padding and floor(p + ((viewport - 2p) mod cell) / 2) under dynamic padding,
\* with the cell size in force after the rebuild of the glyph cache, if any.
C23_PaddingOfTheTwoModes ==
    (last # <<>> /\ Called("context_resize")) =>
        /\ size_info.dpr = CoalescedDpr
        /\ FontChanged =>
              /\ size_info.cell_width = compute_cell_size(CoalescedFontSize, CoalescedDpr).cell_width
              /\ size_info.cell_height = compute_cell_size(CoalescedFontSize, CoalescedDpr).cell_height
        /\ size_info.padding_x
              = C23_Padding(config.dynamic_padding, C23_Scaled(config.padding.x, CoalescedDpr),
                            size_info.width, size_info.cell_width)
        /\ size_info.padding_y
              = C23_Padding(config.dynamic_padding, C23_Scaled(config.padding.y, CoalescedDpr),
                            size_info.height, size_info.cell_height)

\* A dpr of 1.25 arrived: the cache was rebuilt, and with dynamic padding the
\* remainder of the new cells was spread
C23_Witness ==
    /\ last # <<>>
    /\ Called("context_resize")
    /\ Called("update_glyph_cache")
    /\ config.dynamic_padding
    /\ config.padding.x = 1
    /\ size_info.dpr = Quarters(5)
    /\ size_info.cell_width # last[1].size_info.cell_width
    /\ size_info.padding_x > Px(1)

\* C24: in every state of the Display, after Display::new and after any
\* handle_resize calls, both paddings and the column and line counts are not
\* negative, also when the viewport is smaller than twice the padding and the
\* padding is dynamic.
C24_NeverNegative ==
    /\ size_info.cell_width > 0
    /\ size_info.cell_height > 0
    /\ size_info.padding_x >= 0
    /\ size_info.padding_y >= 0
    /\ Cols(size_info) >= 0
    /\ Lines(size_info) >= 0

\* A handle_resize call gave a viewport lower than twice the padding, with
\* dynamic padding: the remainder is negative and the padding below the
\* configured one
C24_Witness ==
    /\ last # <<>>
    /\ Called("context_resize")
    /\ config.dynamic_padding
    /\ size_info.height < 2 * C23_Scaled(config.padding.y, size_info.dpr)
    /\ size_info.padding_y < Floor(C23_Scaled(config.padding.y, size_info.dpr))
    /\ size_info.width = 0
    /\ Cols(size_info) = 0

RECURSIVE C27_Flat(_)
C27_Flat(seqs) == IF seqs = <<>> THEN <<>> ELSE Head(seqs) \o C27_Flat(Tail(seqs))

C27_Taken == IF handling = <<>> THEN <<>> ELSE handling[1].received

\* C27: with senders that send while handle_resize calls run, the signals
\* sent are, in the order they were sent, the ones the finished calls drained,
\* then the ones the call in progress has taken, then the ones still in the
\* channel: each is drained by one call and no other, none is lost or seen
\* twice, and the signals of a sender are drained in the order it sent them.
C27_EachSignalDrainedOnce ==
    channel_log.sent = C27_Flat(channel_log.drained) \o C27_Taken \o rx

\* One call drained a signal of each sender, the call in progress has taken
\* the next signal, and one more has been sent since
C27_Witness ==
    /\ Len(channel_log.drained) = 1
    /\ Len(channel_log.drained[1]) = 2
    /\ channel_log.drained[1][1].kind # channel_log.drained[1][2].kind
    /\ handling # <<>>
    /\ Len(handling[1].received) = 1
    /\ Len(rx) = 1

(***************************************************************************)
(* Claims about the lock of the terminal                                   *)
(***************************************************************************)
\* The event loop has the lock, or waits for it, only in a closure that
\* received EventsCleared and has not returned
C28_HeldInsideTheDrain ==
    /\ (terminal_lock.holder = "events" \/ Waits("events")) =>
          /\ callback \in {"lock", "end"}
          /\ control_flow = "Wait"
    /\ callback = "end" => terminal_lock.holder = "events"

\* C28: the event loop holds the lock of the terminal only inside a drain: it
\* takes it after EventsCleared was received and gives it back before the
\* closure returns, on every path; it never holds it while it buffers events
\* or waits; and the other context, once it waits for the lock, gets it.
C28_LockOnlyInsideADrain ==
    /\ []C28_HeldInsideTheDrain
    /\ Waits("io") ~> terminal_lock.holder = "io"

\* The closure has drained two events under the lock and has not returned;
\* the other context waits for the lock
C28_Witness ==
    /\ terminal_lock.holder = "events"
    /\ Waits("io")
    /\ callback = "end"
    /\ drained # <<>>
    /\ Len(drained[1].handled) = MaxQueue

(***************************************************************************)
(* Claims about the event loop and the Display together                    *)
(***************************************************************************)
\* No signal is pending and no broadcast of the Display waits to be handled
C29_Quiet ==
    /\ rx = <<>>
    /\ \A i \in 1..Len(event_queue) : event_queue[i].kind # "Resize"

\* C29: whenever the Resize channel is empty and every Event::Resize the
\* Display broadcast has been handled, the Processor's size_info (width,
\* height, cell size, padding, dpr) is the Display's and the Processor's font
\* size is the Display's, however window resizes, dpr changes, font size
\* changes and handle_resize calls interleave.
C29_Lockstep ==
    C29_Quiet =>
        /\ processor_size_info = size_info
        /\ processor_font_size = font_size

\* The window went to a screen of dpr 2 and the font size went down: the
\* Display resolved both, its broadcast was handled, and nothing is pending
C29_Witness ==
    /\ C29_Quiet
    /\ drained # <<>>
    /\ \E i \in 1..Len(drained[1].handled) : drained[1].handled[i].kind = "Resize"
    /\ size_info.dpr = Factor(2)
    /\ font_size = 1
    /\ processor_size_info.dpr = Factor(2)
    /\ processor_size_info.cell_width = compute_cell_size(1, Factor(2)).cell_width
    /\ processor_font_size = 1

(***************************************************************************)
(* Claims about the font size signal of a drain                            *)
(***************************************************************************)
\* The Resize::FontSize signals among the signals
C30_FontSizes(signals) == SelectSeq(signals, LAMBDA s : s.kind = "FontSize")

\* C30: a drain sends at most one Resize::FontSize signal: it sends one exactly
\* when the font size after the buffered events were handled differs from the
\* Processor's font size before the drain, the signal carries that final value
\* and the Processor stores it; font size changes that cancel out within the
\* drain send nothing.
C30_OneFontSizeSignalPerDrain ==
    [][drained' # <<>> =>
          C30_FontSizes(rx') =
              IF processor_font_size' # processor_font_size
              THEN <<FontSizeSig(processor_font_size')>>
              ELSE <<>>]_vars

\* An earlier drain took the font size down to 1; the last drain handled a
\* reset and a decrease, which cancel out, and sent no FontSize signal
C30_Witness ==
    /\ drained # <<>>
    /\ Len(drained[1].handled) = 2
    /\ drained[1].handled[1].action = "ResetFontSize"
    /\ drained[1].handled[2].action = "DecreaseFontSize"
    /\ C30_FontSizes(drained[1].sent) = <<>>
    /\ processor_font_size = 1
    /\ config.font_size = 2

(***************************************************************************)
(* Claims about the message bar signal of a drain                          *)
(***************************************************************************)
\* The Resize::MessageBar signals among the signals
C31_MessageBars(signals) == SelectSeq(signals, LAMBDA s : s.kind = "MessageBar")

\* C31: a drain sends a Resize::MessageBar(n) signal exactly when the number of
\* message bar lines after the buffered events were handled differs from the
\* number before they were handled, and n is the new number; a drain that
\* leaves the number as it was sends no MessageBar signal.
C31_MessageBarSignalPerDrain ==
    [][drained' # <<>> =>
          C31_MessageBars(rx') =
              IF message_bar' # message_bar
              THEN <<MessageBarSig(message_bar')>>
              ELSE <<>>]_vars

\* A drain handled a ConfigReload while the bar showed a message: the bar is
\* empty and the drain sent MessageBar(0)
C31_Witness ==
    /\ drained # <<>>
    /\ \E i \in 1..Len(drained[1].handled) : drained[1].handled[i].kind = "ConfigReload"
    /\ C31_MessageBars(drained[1].sent) = <<MessageBarSig(0)>>
    /\ message_bar = 0

(***************************************************************************)
(* Claims about the redraw request and the dirty flag across drains        *)
(***************************************************************************)
\* This step is a drain that sends a RenderUpdate
C32_RenderUpdateSent ==
    /\ drained' # <<>>
    /\ drained'[1].render_updates = 1

\* C32: a redraw request is never lost.  While the event loop runs,
\* redraw_requested stays set from one callback to the next until a drain
\* sends a RenderUpdate, and so does terminal.dirty; a drain that starts with
\* the request pending and ends with terminal.dirty set sends a RenderUpdate.
C32_RedrawRequestKept ==
    [][control_flow' # "Exit" =>
          /\ (redraw_requested /\ ~C32_RenderUpdateSent) => redraw_requested'
          /\ (terminal_dirty /\ ~C32_RenderUpdateSent) => terminal_dirty'
          /\ (drained' # <<>> /\ redraw_requested /\ drained'[1].dirty) =>
                 C32_RenderUpdateSent]_vars

\* The request was handled by an earlier drain that had nothing to draw; the
\* last drain handled a Wakeup alone and sent the RenderUpdate
C32_Witness ==
    /\ drained # <<>>
    /\ Len(drained[1].handled) = 1
    /\ drained[1].handled[1].kind = "Wakeup"
    /\ drained[1].render_updates = 1
    /\ ~redraw_requested

(***************************************************************************)
(* Claims about the two flags of a pass                                    *)
(***************************************************************************)
\* The cells with the flag cleared on every one of them
C33_Without(cells, flag) ==
    [i \in 1..Len(cells) |-> [cells[i] EXCEPT !.flags = @ \ {flag}]]

\* Rects::new and then update_lines for each of the cells
RECURSIVE C33_Pass(_)
C33_Pass(cells) ==
    IF cells = <<>>
    THEN [lines |-> RectsNew, inner |-> <<>>, flushed |-> <<>>]
    ELSE LET p == C33_Pass(SubSeq(cells, 1, Len(cells) - 1))
             cell == cells[Len(cells)]
             u == UpdateLine(p.lines[1], cell, metrics, size, size, offset)
             s == UpdateLine(p.lines[2], cell, metrics, size, size, offset)
         IN  [lines |-> <<u.line, s.line>>,
              inner |-> p.inner \o u.push \o s.push,
              flushed |-> p.flushed \o u.args \o s.args]

\* What a pass holds for one flag: its rectangles in the order pushed, each
\* with the columns and the row it was made from, and the run left open
C33_Part(p, i) ==
    LET at == SelectSeq([k \in 1..Len(p.flushed) |-> k],
                        LAMBDA k : p.flushed[k].flag = TrackedFlags[i])
    IN  [rects |-> [k \in 1..Len(at) |->
                      [rect |-> p.inner[at[k]],
                       from |-> PointOf(p.flushed[at[k]].start),
                       to |-> p.flushed[at[k]].end]],
         open |-> IF p.lines[i].range = <<>>
                  THEN <<>>
                  ELSE <<[from |-> PointOf(p.lines[i].range[1].start),
                          fg |-> p.lines[i].range[1].start.fg,
                          to |-> p.lines[i].range[1].end]>>]

\* C33: update_lines tracks underline and strikeout independently.  At every
\* point of a pass the rectangles of one flag (columns, row, colour, in order)
\* and its open run are those of the pass over the same cells with the other
\* flag cleared on every cell, which makes no rectangle and no run for the
\* other flag; a cell that carries both flags is the end of an open run of
\* each flag.
C33_FlagsAreIndependent ==
    /\ \A i \in 1..2 :
          LET alone == C33_Pass(C33_Without(fed, TrackedFlags[3 - i]))
              here == [lines |-> active_lines, inner |-> inner, flushed |-> flushed]
          IN  /\ C33_Part(here, i) = C33_Part(alone, i)
              /\ C33_Part(alone, 3 - i) = [rects |-> <<>>, open |-> <<>>]
    /\ (fed # <<>> /\ fed[Len(fed)].flags = {UNDERLINE, STRIKEOUT}) =>
          \A i \in 1..2 :
              /\ active_lines[i].range # <<>>
              /\ active_lines[i].range[1].end = PointOf(fed[Len(fed)])

\* A pass with a cell of both flags and a cell of one flag that has made a
\* rectangle for each flag
C33_Witness ==
    /\ \E k \in 1..Len(fed) : fed[k].flags = {UNDERLINE, STRIKEOUT}
    /\ \E k \in 1..Len(fed) : Cardinality(fed[k].flags) = 1
    /\ \A flag \in {UNDERLINE, STRIKEOUT} : \E k \in 1..Len(flushed) : flushed[k].flag = flag
    /\ Len(inner) = Len(flushed)

(***************************************************************************)
(* Claims about the UIConfig                                               *)
(***************************************************************************)
\* C34: UIConfig::font(size) returns the font of the small_font section
\* exactly when there is such a section, it has an upper_bound and size is at
\* most the size of the bound; in every other case it returns the main font,
\* and basic_font() always returns the main font.
C34_SmallFontUpToTheBound ==
    returned # <<>> =>
        /\ returned[1].call = "font" =>
              returned[1].font =
                  IF /\ ui_config.small_font # <<>>
                     /\ ui_config.small_font[1].upper_bound # <<>>
                     /\ returned[1].size <= ui_config.small_font[1].upper_bound[1].size
                  THEN ui_config.small_font[1].font
                  ELSE ui_config.font
        /\ returned[1].call = "basic_font" => returned[1].font = ui_config.font

\* font() was asked for the size of the bound itself and returned the small font
C34_Witness ==
    /\ returned # <<>>
    /\ returned[1].call = "font"
    /\ ui_config.small_font # <<>>
    /\ ui_config.small_font[1].upper_bound = <<[size |-> returned[1].size]>>
    /\ returned[1].font = SmallFont
    /\ ui_config.font = MainFont

\* The values of the input that are bindings, in their order
C35_Valid(input) == SelectSeq(input.values, LAMBDA value : value.valid)

\* The default binding matches one of the bindings
C35_Matched(b, bindings) ==
    \E i \in 1..Len(bindings) : triggers_match(b, bindings[i])

\* C35: deserialize_bindings never fails because of a value that is no
\* binding: given a sequence of values it answers Ok with the values that are
\* bindings, in the order configured, and then exactly the default bindings
\* whose trigger matches none of them, in the order of the defaults.
C35_UserBindingsThenUnmatchedDefaults ==
    (returned # <<>> /\ returned[1].call = "deserialize" /\ returned[1].input.sequence) =>
        LET user == C35_Valid(returned[1].input)
        IN  /\ returned[1].result.ok
            /\ returned[1].result.bindings =
                   user \o SelectSeq(default_key_bindings,
                                     LAMBDA b : ~C35_Matched(b, user))

\* A value that is no binding and a binding for Paste were configured: the
\* result is that binding and then the default for Copy, both defaults for
\* Paste gone
C35_Witness ==
    /\ returned # <<>>
    /\ returned[1].call = "deserialize"
    /\ returned[1].input.values = <<InvalidValue, Binding("Paste", "user")>>
    /\ returned[1].result.ok
    /\ returned[1].result.bindings = <<Binding("Paste", "user"), Binding("Copy", "Copy")>>

====
